---- MODULE Spec2Model ----
(***************************************************************************)
(* A state-machine model of the software renderer's core:                  *)
(*   - PixelBuffer            (src/src/pixelbuffer.cpp)                     *)
(*   - WeirdEntity / WeirdVisualManager (src/src/weird_entities.cpp)        *)
(*   - FractalGameOfLifeSystem (src/src/fractal_system.cpp)                 *)
(*                                                                         *)
(* Floats are modelled in fixed point: a float f is the integer f * Scale. *)
(* A 32-bit ARGB colour is the tuple <<a, r, g, b>> of its four bytes.     *)
(* A draw of the random generator is a nondeterministic choice among a few *)
(* representatives of the drawn range.                                     *)
(***************************************************************************)
EXTENDS Integers, Sequences, FiniteSets, TLC

VARIABLES
    \* ---- PixelBuffer (pixelbuffer.h:9-10)
    pixels, pb_width, pb_height,
    pb_call,        \* history: the last PixelBuffer call and its arguments
    pb_calls,       \* number of PixelBuffer calls made so far
    \* ---- one WeirdEntity driven on its own (weird_entities.h:11-21)
    ent,
    ent_calls,      \* number of WeirdEntity::update calls made so far
    ent_events,     \* number of those calls whose 1% stochastic event fired
    \* ---- WeirdVisualManager (weird_entities.h:43-46)
    entities, spawnTimer, spawnInterval, maxEntities,
    mgr_call,       \* history: what the last manager call did
    mgr_calls,      \* number of manager calls made so far
    nextId,         \* history: spawn ordinal given to the next entity
    \* ---- FractalGameOfLifeSystem (fractal_system.h:13-29)
    fld,            \* the object: a record of its data members
    fld_pc,         \* position inside update: the phase and the next interior cell
    fld_call,       \* history: the last call, or step of update, and its draws
    fld_calls,      \* number of driver calls made so far
    fld_events,     \* number of rare random events drawn so far
    fld_snap,       \* history: the object as the last cell pass found it
    fld_fault,      \* history: some access fell outside the accessed row
    fld_alive,      \* FALSE once a call has thrown or aborted
    intAbs          \* build: unqualified abs(float) resolves to int abs(int)

pbVars  == <<pixels, pb_width, pb_height, pb_call, pb_calls>>
entVars == <<ent, ent_calls, ent_events>>
mgrVars == <<entities, spawnTimer, spawnInterval, maxEntities, mgr_call, mgr_calls, nextId>>
fldVars == <<fld, fld_pc, fld_call, fld_calls, fld_events, fld_snap, fld_fault, fld_alive, intAbs>>
vars    == <<pbVars, entVars, mgrVars, fldVars>>

(***************************************************************************)
(* Bounds of the model                                                     *)
(***************************************************************************)
MaxBufW      == 3     \* widest pixel buffer constructed
MaxBufH      == 2     \* tallest pixel buffer constructed
MaxPbCalls   == 2     \* PixelBuffer calls per behaviour
MaxEntCalls  == 4     \* WeirdEntity::update calls per behaviour
MaxEntEvents == 1     \* of which so many draw a stochastic event
MaxMgrCalls  == 7     \* WeirdVisualManager calls per behaviour
MaxFieldCalls  == 2   \* FractalGameOfLifeSystem calls per behaviour
MaxFieldEvents == 1   \* rare random events of update per behaviour
FieldBufW      == 4   \* width of the pixel buffer the field is rendered into
FieldBufH      == 3   \* its height
MaxMoodCalls   == 3   \* calls per behaviour on the field without interior cells
MaxMoodEvents  == 3   \* rare random events of update in those calls
MaxBigUpdates  == 1   \* on the 20 x 20 field update is tried as one of the first so many calls
MaxRasterCalls == 1   \* drawing calls per behaviour on the raster buffer

(***************************************************************************)
(* Fixed-point arithmetic                                                  *)
(***************************************************************************)
Scale == 10 * 100

\* With(v, F) is F(v) with v evaluated once, however often F uses it.
With(v, F(_)) == CHOOSE r \in {F(u) : u \in {v}} : TRUE

Abs(a) == With(a, LAMBDA v : IF v < 0 THEN -v ELSE v)
Min(a, b) == With(<<a, b>>, LAMBDA p : IF p[1] < p[2] THEN p[1] ELSE p[2])
Max(a, b) == With(<<a, b>>, LAMBDA p : IF p[1] < p[2] THEN p[2] ELSE p[1])

\* C's integer division and float-to-int conversion truncate toward zero.
TruncDiv(a, b) ==
    With(<<a, b>>, LAMBDA p :
        IF (p[1] < 0) = (p[2] < 0) THEN Abs(p[1]) \div Abs(p[2])
        ELSE -(Abs(p[1]) \div Abs(p[2])))

\* a * b of two fixed-point numbers, truncated toward zero
MulF(a, b) ==
    With(<<Abs(a), Abs(b), (a < 0) = (b < 0)>>, LAMBDA p :
        With((p[1] \div Scale) * p[2] + ((p[1] % Scale) * p[2]) \div Scale, LAMBDA m :
            IF p[3] THEN m ELSE -m))

\* A random draw's representatives: position q of Quantiles within [lo, hi].
Quantiles == {0, 1}
Pick(lo, hi, q) == IF q = 0 THEN lo ELSE hi

PiF    == (355 * Scale) \div 113
TwoPiF == (710 * Scale) \div 113

\* sin of a fixed-point angle (radians), by Bhaskara's rational approximation
\* on one half period; the result is fixed point, within 0.002 of sin.
SinHalf(t) == (16 * t * (PiF - t)) \div ((5 * PiF * PiF - 4 * t * (PiF - t)) \div Scale)
SinF(a) ==
    With(a % TwoPiF, LAMBDA t :
        IF t <= PiF THEN SinHalf(t) ELSE -SinHalf(Min(t - PiF, PiF)))
CosF(a) == SinF(a + PiF \div 2)

Vec3(x, y, z) == [x |-> x, y |-> y, z |-> z]

(***************************************************************************)
(* Single-precision arithmetic of the colour interpolation                 *)
(***************************************************************************)
\* IEEE-754 single precision, non-negative values: <<m, e>> stands for
\* m * 2^e with m = 0 or 2^23 <= m < 2^24; results are rounded to nearest,
\* ties to even.  Products are formed in 12-bit halves to stay within the
\* integers of the checker.
F32Zero == <<0, 0>>

\* m * 2^e with round bit r and sticky bit s below it, rounded
F32Round(m, r, s, e) ==
    With(IF r = 1 /\ (s \/ m % 2 = 1) THEN m + 1 ELSE m, LAMBDA n :
        IF n = 2^24 THEN <<2^23, e + 1>> ELSE <<n, e>>)

\* quotient bits of rem / b below the binary point, until acc has 25 bits
RECURSIVE F32DivBits(_, _, _, _)
F32DivBits(acc, rem, b, e) ==
    IF acc >= 2^24 THEN F32Round(acc \div 2, acc % 2, rem # 0, e + 1)
    ELSE With(<<2 * acc + (IF 2 * rem >= b THEN 1 ELSE 0),
                IF 2 * rem >= b THEN 2 * rem - b ELSE 2 * rem>>,
              LAMBDA n : F32DivBits(n[1], n[2], b, e - 1))

\* (float)a / (float)b for integers 0 <= a < 2^24, 0 < b < 2^24
F32Div(a, b) == IF a = 0 THEN F32Zero ELSE F32DivBits(a \div b, a % b, b, 0)

\* x * y
F32Mul(x, y) ==
    IF x[1] = 0 \/ y[1] = 0 THEN F32Zero
    ELSE With(<<(x[1] \div 4096) * (y[1] \div 4096),
                (x[1] \div 4096) * (y[1] % 4096) + (x[1] % 4096) * (y[1] \div 4096),
                (x[1] % 4096) * (y[1] % 4096)>>, LAMBDA p :
         With((p[2] % 4096) * 4096 + p[3], LAMBDA low :
         With(<<p[1] + p[2] \div 4096 + low \div 2^24, low % 2^24>>, LAMBDA hl :
            IF hl[1] >= 2^23
            THEN F32Round(hl[1], hl[2] \div 2^23, hl[2] % 2^23 # 0, x[2] + y[2] + 24)
            ELSE F32Round(2 * hl[1] + hl[2] \div 2^23, (hl[2] % 2^23) \div 2^22,
                          hl[2] % 2^22 # 0, x[2] + y[2] + 23))))

\* x + y
F32Add(x, y) ==
    IF x[1] = 0 THEN y
    ELSE IF y[1] = 0 THEN x
    ELSE With(IF x[2] < y[2] THEN <<y, x>> ELSE <<x, y>>, LAMBDA p :
         IF p[1][2] - p[2][2] > 25 THEN p[1]
         ELSE With(<<4 * p[1][1] + (4 * p[2][1]) \div 2^(p[1][2] - p[2][2]),
                     (4 * p[2][1]) % 2^(p[1][2] - p[2][2]) # 0>>, LAMBDA s :
            IF s[1] >= 2^26
            THEN F32Round(s[1] \div 8, (s[1] \div 4) % 2, s[2] \/ s[1] % 4 # 0, p[1][2] + 1)
            ELSE F32Round(s[1] \div 4, (s[1] \div 2) % 2, s[2] \/ s[1] % 2 # 0, p[1][2])))

\* (int)x for 0 <= x < 2^24
F32Trunc(x) == IF x[2] >= 0 THEN x[1] * 2^x[2] ELSE IF x[2] < -24 THEN 0 ELSE x[1] \div 2^(-x[2])

(***************************************************************************)
(* PixelBuffer                                                             *)
(***************************************************************************)
\* uint32_t 0: what a value-initialised pixel holds and what getPixel returns
\* outside the buffer
ZeroColor == <<0, 0, 0, 0>>

\* the colours the calls are tried with: 0xFF123456, 0x00000001
TestColors == {<<255, 18, 52, 86>>, <<0, 0, 0, 1>>}

\* PixelBuffer::PixelBuffer: pixels.resize(w * h)
PixelBuffer_ctor(w, h) == [i \in 1..(w * h) |-> ZeroColor]

\* the bounds test shared by setPixel and getPixel
InBuffer(w, h, x, y) == x >= 0 /\ x < w /\ y >= 0 /\ y < h

\* pixels[y * width + x]; the sequence is 1-based
PixelIndex(w, x, y) == y * w + x + 1

setPixel_rowTestOnly(px, w, h, x, y, color) ==
    IF y >= 0 /\ y < h /\ PixelIndex(w, x, y) \in DOMAIN px
    THEN [px EXCEPT ![PixelIndex(w, x, y)] = color] ELSE px

setPixel_columnMajor(px, w, h, x, y, color) ==
    IF InBuffer(w, h, x, y) THEN [px EXCEPT ![x * h + y + 1] = color] ELSE px

\* PixelBuffer::setPixel
setPixel(px, w, h, x, y, color) ==
    IF InBuffer(w, h, x, y) THEN [px EXCEPT ![PixelIndex(w, x, y)] = color] ELSE px

\* PixelBuffer::getPixel
getPixel(px, w, h, x, y) ==
    IF InBuffer(w, h, x, y) THEN px[PixelIndex(w, x, y)] ELSE ZeroColor

\* PixelBuffer::clear
clear(px, color) == [i \in DOMAIN px |-> color]

PbIdle ==
    /\ pixels = <<>> /\ pb_width = 0 /\ pb_height = 0
    /\ pb_call = [op |-> "none"] /\ pb_calls = 0

PbInit ==
    \E w \in 1..MaxBufW, h \in 1..MaxBufH :
        /\ pixels = PixelBuffer_ctor(w, h)
        /\ pb_width = w /\ pb_height = h
        /\ pb_call = [op |-> "PixelBuffer"]
        /\ pb_calls = 0

PbSetPixel ==
    \E x \in -1..pb_width, y \in -1..pb_height, c \in TestColors :
        /\ pb_calls < MaxPbCalls
        /\ pixels' = setPixel(pixels, pb_width, pb_height, x, y, c)
        /\ pb_call' = [op |-> "setPixel", x |-> x, y |-> y, color |-> c]
        /\ pb_calls' = pb_calls + 1
        /\ UNCHANGED <<pb_width, pb_height, entVars, mgrVars, fldVars>>

PbGetPixel ==
    \E x \in -1..pb_width, y \in -1..pb_height :
        /\ pb_calls < MaxPbCalls
        /\ pb_call' = [op |-> "getPixel", x |-> x, y |-> y,
                       result |-> getPixel(pixels, pb_width, pb_height, x, y)]
        /\ pb_calls' = pb_calls + 1
        /\ UNCHANGED <<pixels, pb_width, pb_height, entVars, mgrVars, fldVars>>

PbClear ==
    \E c \in TestColors :
        /\ pb_calls < MaxPbCalls
        /\ pixels' = clear(pixels, c)
        /\ pb_call' = [op |-> "clear", color |-> c]
        /\ pb_calls' = pb_calls + 1
        /\ UNCHANGED <<pb_width, pb_height, entVars, mgrVars, fldVars>>

\* ---- PixelBuffer::Color, pixelbuffer.cpp:6-30.  A Color is the tuple of its
\* four floats, in the channel order <<a, r, g, b>> of the colour tuples.
Color(argb) == [ch \in 1..4 |-> F32Div(argb[ch], 255)]
Color_times(c, scalar) == [ch \in 1..4 |-> F32Mul(c[ch], scalar)]
Color_plus(c, other) == [ch \in 1..4 |-> F32Add(c[ch], other[ch])]

\* (uint8_t)(x * 255.0f) of each channel
F32_255 == <<255 * 2^16, -16>>
Color_toARGB(c) == [ch \in 1..4 |-> F32Trunc(F32Mul(c[ch], F32_255)) % 256]

\* the position of the k-th pixel of a buffer of width w
PixelPos(w, k) == <<(k - 1) % w, (k - 1) \div w>>

\* setPixel(x, y, colorAt(<<x, y>>)) for every position <<x, y>> of S
Paint(px, w, h, S, colorAt(_)) ==
    With(S, LAMBDA T :
        [k \in DOMAIN px |->
            IF PixelPos(w, k) \in T /\ InBuffer(w, h, PixelPos(w, k)[1], PixelPos(w, k)[2])
            THEN colorAt(PixelPos(w, k)) ELSE px[k]])

\* ---- PixelBuffer::drawLine, lines 58-82.  L holds what the loop does not
\* change, st the loop's variables; visited lists the positions given to
\* setPixel; fuel bounds the iterations evaluated.
RECURSIVE drawLine_loop(_, _)
drawLine_loop(L, st) ==
    With(<<setPixel(st.px, L.w, L.h, st.x, st.y, L.color), Append(st.visited, <<st.x, st.y>>),
           2 * st.err > -L.dy, 2 * st.err < L.dx>>, LAMBDA n :
        IF st.x = L.x1 /\ st.y = L.y1
        THEN [px |-> n[1], visited |-> n[2], stopped |-> TRUE]
        ELSE IF st.fuel = 0
        THEN [px |-> n[1], visited |-> n[2], stopped |-> FALSE]
        ELSE With([px |-> n[1], visited |-> n[2], fuel |-> st.fuel - 1,
                   x |-> IF n[3] THEN st.x + L.sx ELSE st.x,
                   y |-> IF n[4] THEN st.y + L.sy ELSE st.y,
                   err |-> st.err - (IF n[3] THEN L.dy ELSE 0) + (IF n[4] THEN L.dx ELSE 0)],
                  LAMBDA t : drawLine_loop(L, t)))

drawLine_sumErr(px, w, h, x0, y0, x1, y1, color) ==
    With([w |-> w, h |-> h, x1 |-> x1, y1 |-> y1, color |-> color,
          dx |-> Abs(x1 - x0), dy |-> Abs(y1 - y0),
          sx |-> IF x0 < x1 THEN 1 ELSE -1, sy |-> IF y0 < y1 THEN 1 ELSE -1],
         LAMBDA L :
            drawLine_loop(L, [px |-> px, visited |-> <<>>, x |-> x0, y |-> y0,
                              err |-> L.dx + L.dy, fuel |-> 2 * (L.dx + L.dy) + 2]))

drawLine(px, w, h, x0, y0, x1, y1, color) ==
    With([w |-> w, h |-> h, x1 |-> x1, y1 |-> y1, color |-> color,
          dx |-> Abs(x1 - x0), dy |-> Abs(y1 - y0),
          sx |-> IF x0 < x1 THEN 1 ELSE -1, sy |-> IF y0 < y1 THEN 1 ELSE -1],
         LAMBDA L :
            drawLine_loop(L, [px |-> px, visited |-> <<>>, x |-> x0, y |-> y0,
                              err |-> L.dx - L.dy, fuel |-> 2 * (L.dx + L.dy) + 2]))

\* ---- PixelBuffer::fillTriangle, lines 90-138
\* the three conditional swaps of lines 92-94 on <<x0, y0, x1, y1, x2, y2>>
fillTriangle_sorted(v) ==
    With(IF v[2] > v[4] THEN <<v[3], v[4], v[1], v[2], v[5], v[6]>> ELSE v, LAMBDA a :
    With(IF a[2] > a[6] THEN <<a[5], a[6], a[3], a[4], a[1], a[2]>> ELSE a, LAMBDA b :
        IF b[4] > b[6] THEN <<b[1], b[2], b[5], b[6], b[3], b[4]>> ELSE b))

\* (int)(xa + (float)(xb - xa) * (y - ya) / (yb - ya)), yb > ya.  The exact
\* quotient is a multiple of 1 / (yb - ya), so the rounding of the float
\* operations cannot carry it across an integer.
EdgeX(xa, ya, xb, yb, y) == TruncDiv(xa * (yb - ya) + (xb - xa) * (y - ya), yb - ya)

\* <<(int)x_left, (int)x_right>> of scanline y for sorted vertices v
fillTriangle_span(v, y) ==
    <<IF v[6] # v[2] THEN EdgeX(v[1], v[2], v[5], v[6], y) ELSE v[1],
      IF y <= v[4]
      THEN (IF v[4] # v[2] THEN EdgeX(v[1], v[2], v[3], v[4], y) ELSE v[1])
      ELSE (IF v[6] # v[4] THEN EdgeX(v[3], v[4], v[5], v[6], y) ELSE v[3])>>

\* the positions inside the buffer that fillTriangle gives to setPixel
fillTriangle_painted(w, h, x0, y0, x1, y1, x2, y2) ==
    With(fillTriangle_sorted(<<x0, y0, x1, y1, x2, y2>>), LAMBDA v :
        IF v[2] = v[6] THEN {}
        ELSE UNION {With(fillTriangle_span(v, y), LAMBDA sp :
                        {<<x, y>> : x \in Max(0, Min(sp[1], sp[2]))..Min(w - 1, Max(sp[1], sp[2]))})
                    : y \in Max(0, v[2])..Min(h - 1, v[6])})

fillTriangle(px, w, h, x0, y0, x1, y1, x2, y2, color) ==
    Paint(px, w, h, fillTriangle_painted(w, h, x0, y0, x1, y1, x2, y2), LAMBDA p : color)

\* ---- PixelBuffer::fillTriangleBarycentric, lines 140-176
\* the lambda sign; its int result converts to float exactly for these sizes
sign(x0, y0, x1, y1, x2, y2) == (x0 - x2) * (y1 - y2) - (x1 - x2) * (y0 - y2)

\* the bounding box clamped to the screen, lines 142-151
BoundingBox(w, h, x0, y0, x1, y1, x2, y2) ==
    (Max(0, Min(x0, Min(x1, x2)))..Min(w - 1, Max(x0, Max(x1, x2))))
        \X (Max(0, Min(y0, Min(y1, y2)))..Min(h - 1, Max(y0, Max(y1, y2))))

\* s / area >= 0 in float arithmetic, area # 0
WeightNotNegative(s, area) == s = 0 \/ (s > 0) = (area > 0)

Barycentric_noAreaTest(w, h, x0, y0, x1, y1, x2, y2) ==
    With(sign(x0, y0, x1, y1, x2, y2), LAMBDA area :
        {p \in BoundingBox(w, h, x0, y0, x1, y1, x2, y2) :
            /\ sign(p[1], p[2], x1, y1, x2, y2) * area >= 0
            /\ sign(x0, y0, p[1], p[2], x2, y2) * area >= 0
            /\ sign(x0, y0, x1, y1, p[1], p[2]) * area >= 0})

\* the positions that pass the test w0 >= 0 && w1 >= 0 && w2 >= 0
Barycentric_painted(w, h, x0, y0, x1, y1, x2, y2) ==
    With(sign(x0, y0, x1, y1, x2, y2), LAMBDA area :
        IF area = 0 THEN {}
        ELSE {p \in BoundingBox(w, h, x0, y0, x1, y1, x2, y2) :
                /\ WeightNotNegative(sign(p[1], p[2], x1, y1, x2, y2), area)
                /\ WeightNotNegative(sign(x0, y0, p[1], p[2], x2, y2), area)
                /\ WeightNotNegative(sign(x0, y0, x1, y1, p[1], p[2]), area)})

fillTriangleBarycentric(px, w, h, x0, y0, x1, y1, x2, y2, color) ==
    Paint(px, w, h, Barycentric_painted(w, h, x0, y0, x1, y1, x2, y2), LAMBDA p : color)

\* ---- PixelBuffer::fillTriangleGradient, lines 197-240
\* (c0 * w0 + c1 * w1 + c2 * w2).toARGB() at a position p that passed the test
\* for the Colors c0, c1, c2 of the vertices (line 210)
GradientColor(p, x0, y0, c0, x1, y1, c1, x2, y2, c2) ==
    With(Abs(sign(x0, y0, x1, y1, x2, y2)), LAMBDA area :
    With(<<F32Div(Abs(sign(p[1], p[2], x1, y1, x2, y2)), area),
           F32Div(Abs(sign(x0, y0, p[1], p[2], x2, y2)), area),
           F32Div(Abs(sign(x0, y0, x1, y1, p[1], p[2])), area)>>, LAMBDA wt :
        Color_toARGB(Color_plus(Color_plus(Color_times(c0, wt[1]), Color_times(c1, wt[2])),
                                Color_times(c2, wt[3])))))

fillTriangleGradient(px, w, h, x0, y0, color0, x1, y1, color1, x2, y2, color2) ==
    With(<<Color(color0), Color(color1), Color(color2)>>, LAMBDA c :
        Paint(px, w, h, Barycentric_painted(w, h, x0, y0, x1, y1, x2, y2),
              LAMBDA p : GradientColor(p, x0, y0, c[1], x1, y1, c[2], x2, y2, c[3])))

\* ---- the drawing calls, each tried on a new buffer
RasterW == 3
RasterH == 3
RasterCoords == -1..3
FillColors == {<<255, 18, 52, 86>>}
GradientColors ==
    {<<c, c, c>> : c \in FillColors} \cup {<<<<255, 255, 0, 0>>, <<255, 0, 255, 0>>, <<255, 0, 0, 255>>>>}

RasterInit ==
    /\ pixels = PixelBuffer_ctor(RasterW, RasterH)
    /\ pb_width = RasterW /\ pb_height = RasterH
    /\ pb_call = [op |-> "PixelBuffer"]
    /\ pb_calls = 0

RasterReady == pb_calls < MaxRasterCalls

RasDrawLine ==
    /\ RasterReady
    /\ \E x0 \in RasterCoords, y0 \in RasterCoords, x1 \in RasterCoords, y1 \in RasterCoords,
          c \in TestColors :
       \E r \in {drawLine(pixels, pb_width, pb_height, x0, y0, x1, y1, c)} :
            /\ pixels' = r.px
            /\ pb_call' = [op |-> "drawLine", x0 |-> x0, y0 |-> y0, x1 |-> x1, y1 |-> y1,
                           color |-> c, before |-> pixels, visited |-> r.visited,
                           stopped |-> r.stopped]
            /\ pb_calls' = pb_calls + 1
            /\ UNCHANGED <<pb_width, pb_height, entVars, mgrVars, fldVars>>

RasFillTriangle ==
    /\ RasterReady
    /\ \E x0 \in RasterCoords, y0 \in RasterCoords, x1 \in RasterCoords, y1 \in RasterCoords,
          x2 \in RasterCoords, y2 \in RasterCoords, c \in FillColors :
            /\ pixels' = fillTriangle(pixels, pb_width, pb_height, x0, y0, x1, y1, x2, y2, c)
            /\ pb_call' = [op |-> "fillTriangle", v |-> <<x0, y0, x1, y1, x2, y2>>,
                           color |-> c, before |-> pixels]
            /\ pb_calls' = pb_calls + 1
            /\ UNCHANGED <<pb_width, pb_height, entVars, mgrVars, fldVars>>

RasFillTriangleBarycentric ==
    /\ RasterReady
    /\ \E x0 \in RasterCoords, y0 \in RasterCoords, x1 \in RasterCoords, y1 \in RasterCoords,
          x2 \in RasterCoords, y2 \in RasterCoords, c \in FillColors :
            /\ pixels' = fillTriangleBarycentric(pixels, pb_width, pb_height,
                                                 x0, y0, x1, y1, x2, y2, c)
            /\ pb_call' = [op |-> "fillTriangleBarycentric", v |-> <<x0, y0, x1, y1, x2, y2>>,
                           color |-> c, before |-> pixels]
            /\ pb_calls' = pb_calls + 1
            /\ UNCHANGED <<pb_width, pb_height, entVars, mgrVars, fldVars>>

RasFillTriangleGradient ==
    /\ RasterReady
    /\ \E x0 \in RasterCoords, y0 \in RasterCoords, x1 \in RasterCoords, y1 \in RasterCoords,
          x2 \in RasterCoords, y2 \in RasterCoords, c \in GradientColors :
            /\ pixels' = fillTriangleGradient(pixels, pb_width, pb_height,
                                              x0, y0, c[1], x1, y1, c[2], x2, y2, c[3])
            /\ pb_call' = [op |-> "fillTriangleGradient", v |-> <<x0, y0, x1, y1, x2, y2>>,
                           colors |-> c, before |-> pixels]
            /\ pb_calls' = pb_calls + 1
            /\ UNCHANGED <<pb_width, pb_height, entVars, mgrVars, fldVars>>

(***************************************************************************)
(* WeirdEntity                                                             *)
(*                                                                         *)
(* An entity is the record of the fields the modelled operations read:     *)
(* position, velocity, life, maxLife, type, morphTime.  size, rotation,    *)
(* rotationSpeed and colors only feed the vertex coordinates and colours   *)
(* of the generated triangles; a triangle is modelled by the tag           *)
(* <<owner, k>>: the k-th triangle its owner emitted.  id (the spawn       *)
(* ordinal) and elapsed (the sum of the deltaTime passed so far) are       *)
(* history fields.                                                         *)
(***************************************************************************)
\* deltaTime arguments tried: 0 s, 0.3 s, 5 s
DeltaTimes == {0, 300, 5000}

\* the stochastic event of WeirdEntity::update: -1 is none (the 1% draw
\* failed), 0..3 the case randomInt(0, 3) selected
NoEvent == 0 - 1
EntityEvents == {NoEvent, 0, 1, 2, 3}

\* WeirdEntity::WeirdEntity; d holds the draws
WeirdEntity_ctor(pos, id, d) ==
    [ id        |-> id,
      position  |-> pos,
      velocity  |-> Vec3(Pick(-2000, 2000, d.q), Pick(-2000, 2000, d.q), Pick(-1000, 1000, d.q)),
      maxLife   |-> Pick(5000, 15000, d.q),
      life      |-> Pick(5000, 15000, d.q),
      type      |-> d.type,
      morphTime |-> 0,
      elapsed   |-> 0 ]

\* the switch on randomInt(0, 3) of WeirdEntity::update
EntityChaos(e, d) ==
    CASE d.event = 0 ->
            [e EXCEPT !.velocity.x = MulF(@, -1200), !.velocity.y = MulF(@, -1200)]
      [] d.event = 1 ->
            [e EXCEPT !.position.x = Pick(-3000, 3000, d.q), !.position.y = Pick(-2000, 2000, d.q)]
      [] d.event = 2 ->
            LET f == Pick(1500, 2000, d.q)
            IN  [e EXCEPT !.velocity = Vec3(MulF(@.x, f), MulF(@.y, f), MulF(@.z, f))]
      [] d.event = 3 ->
            [e EXCEPT !.velocity = Vec3(Pick(-3000, 3000, d.q), Pick(-3000, 3000, d.q),
                                        Pick(-1000, 1000, d.q))]
      [] OTHER -> e

WrapX_clamp(x) == IF x > 4000 THEN 4000 ELSE IF x < -4000 THEN -4000 ELSE x

\* the four wrap-around tests of WeirdEntity::update, in the code's order
WrapX(x) == LET a == IF x > 4000 THEN -4000 ELSE x IN IF a < -4000 THEN 4000 ELSE a
WrapY(y) == LET a == IF y > 3000 THEN -3000 ELSE y IN IF a < -3000 THEN 3000 ELSE a

WeirdEntity_update_halfLife(e, deltaTime, d) ==
    [e EXCEPT !.life = @ - deltaTime \div 2, !.morphTime = @ + deltaTime,
              !.elapsed = @ + deltaTime]

\* WeirdEntity::update
WeirdEntity_update(e, deltaTime, d) ==
    LET e1 == [e EXCEPT !.life = @ - deltaTime,
                        !.morphTime = @ + deltaTime,
                        !.elapsed = @ + deltaTime,
                        !.position = Vec3(@.x + MulF(e.velocity.x, deltaTime),
                                          @.y + MulF(e.velocity.y, deltaTime),
                                          @.z + MulF(e.velocity.z, deltaTime))]
        e2 == EntityChaos(e1, d)
    IN  [e2 EXCEPT !.position.x = WrapX(@), !.position.y = WrapY(@)]

isDead_strict(e) == e.life < 0

\* WeirdEntity::isDead
isDead(e) == e.life <= 0

\* the spawn position WeirdVisualManager::update draws
SpawnPos(q) == Vec3(Pick(-3000, 3000, q), Pick(-2000, 2000, q), Pick(-6000, -2000, q))

EntityDraws == [q : Quantiles, event : EntityEvents]
CtorDraws   == [q : Quantiles, type : 0..6]

EntIdle == ent = [id |-> 0] /\ ent_calls = 0 /\ ent_events = 0

EntInit ==
    \E d \in CtorDraws :
        /\ ent = WeirdEntity_ctor(SpawnPos(d.q), 1, d)
        /\ ent_calls = 0
        /\ ent_events = 0

EntUpdate ==
    \E dt \in DeltaTimes, d \in EntityDraws :
        /\ ent_calls < MaxEntCalls
        /\ d.event # NoEvent => ent_events < MaxEntEvents
        /\ ent' = WeirdEntity_update(ent, dt, d)
        /\ ent_calls' = ent_calls + 1
        /\ ent_events' = IF d.event # NoEvent THEN ent_events + 1 ELSE ent_events
        /\ UNCHANGED <<pbVars, mgrVars, fldVars>>

(***************************************************************************)
(* Triangle generation: the tags of the triangles one entity emits         *)
(***************************************************************************)
\* generateFractalLevel: <<level, i>> of every triangle pushed, in push order
RECURSIVE generateFractalLevel(_, _)
generateFractalLevel(level, maxLevel) ==
    IF level >= maxLevel THEN <<>>
    ELSE LET branch(i) == <<<<level, i>>>> \o generateFractalLevel(level + 1, maxLevel)
         IN  branch(0) \o branch(1) \o branch(2)

SpikeCount_amplitude8(e) == 8 + TruncDiv(SinF(e.morphTime) * 8, Scale)

\* int spikes = 8 + (int)(sin(morphTime) * 4)
SpikeCount(e) == 8 + TruncDiv(SinF(e.morphTime) * 4, Scale)

\* the number of push_back calls of the generator WeirdEntity::generateTriangles
\* dispatches to
TriangleCount(e) ==
    CASE e.type = 0 -> SpikeCount(e)
      [] e.type = 1 -> 12 * 2
      [] e.type = 2 -> Len(generateFractalLevel(0, 3))
      [] e.type = 3 -> (20 - 1) * 2
      [] e.type = 4 -> 6 * 8
      [] e.type = 5 -> 15
      [] OTHER      -> 12

\* WeirdEntity::generateTriangles
generateTriangles(e) == [k \in 1..TriangleCount(e) |-> <<e.id, k>>]

(***************************************************************************)
(* WeirdVisualManager                                                      *)
(***************************************************************************)
\* the draws of one WeirdVisualManager::update: q for the spawn interval and
\* position, life for the floats of the new entity, type for its type, reroll
\* for the 1% maxEntities event (0: no event, else the value randomInt(5, 25)
\* returned).  The draws tried pair the short-lived entity with type 0 and
\* the long-lived one with type 2.
ManagerDraws ==
    {d \in [q : Quantiles, life : Quantiles, type : {0, 2}, reroll : {0, 5, 25}] :
        d.type = 2 * d.q /\ d.life = d.q}

\* std::remove_if + erase: the survivors, in their order
RemoveDead(es) == SelectSeq(es, LAMBDA e : ~isDead(e))

\* the entity updates of one manager update draw no stochastic event
TickAll(es, deltaTime) ==
    [i \in 1..Len(es) |-> WeirdEntity_update(es[i], deltaTime, [q |-> 0, event |-> NoEvent])]

MaySpawn_noCap(timer, interval, population, cap) == timer >= interval

\* the spawn condition of WeirdVisualManager::update
MaySpawn(timer, interval, population, cap) == timer >= interval /\ population < cap

getAllTriangles_reversed(es) ==
    LET RECURSIVE cat(_)
        cat(i) == IF i > Len(es) THEN <<>> ELSE cat(i + 1) \o generateTriangles(es[i])
    IN  cat(1)

\* WeirdVisualManager::getAllTriangles
getAllTriangles(es) ==
    LET RECURSIVE cat(_)
        cat(i) == IF i > Len(es) THEN <<>> ELSE generateTriangles(es[i]) \o cat(i + 1)
    IN  cat(1)

MgrIdle ==
    /\ entities = <<>> /\ spawnTimer = 0 /\ spawnInterval = 0 /\ maxEntities = 0
    /\ mgr_call = [op |-> "none"] /\ mgr_calls = 0 /\ nextId = 0

\* WeirdVisualManager::WeirdVisualManager
MgrInit ==
    \E q \in Quantiles :
        /\ entities = <<>>
        /\ spawnTimer = 0
        /\ spawnInterval = Pick(500, 2000, q)
        /\ maxEntities = Pick(8, 20, q)
        /\ mgr_call = [op |-> "WeirdVisualManager"]
        /\ mgr_calls = 0
        /\ nextId = 1

\* WeirdVisualManager::update, with deltaTime taken from DT and its draws from D
MgrUpdateStep(DT, D, maxCalls) ==
    \E deltaTime \in DT, d \in D :
        LET ticked    == TickAll(entities, deltaTime)
            survivors == RemoveDead(ticked)
            timer     == spawnTimer + deltaTime
            spawn     == MaySpawn(timer, spawnInterval, Len(survivors), maxEntities)
        IN  /\ mgr_calls < maxCalls
            /\ entities' = IF spawn
                           THEN Append(survivors,
                                       WeirdEntity_ctor(SpawnPos(d.q), nextId,
                                                        [q |-> d.life, type |-> d.type]))
                           ELSE survivors
            /\ spawnTimer' = IF spawn THEN 0 ELSE timer
            /\ spawnInterval' = IF spawn THEN Pick(300, 2500, d.q) ELSE spawnInterval
            /\ nextId' = IF spawn THEN nextId + 1 ELSE nextId
            /\ maxEntities' = IF d.reroll = 0 THEN maxEntities ELSE d.reroll
            /\ mgr_call' = [op |-> "update", deltaTime |-> deltaTime]
            /\ mgr_calls' = mgr_calls + 1
            /\ UNCHANGED <<pbVars, entVars, fldVars>>

MgrUpdate == MgrUpdateStep(DeltaTimes \ {0}, ManagerDraws, MaxMgrCalls)

\* ---- the manager over a run long enough to fill it: frames of 0.3 s, every
\* spawn drawing the shortest interval and the longest life; the re-roll
\* draws 25 at any frame and 5 once the population has reached 25.
MaxCrowdCalls == 30
CrowdDraws ==
    {d \in [q : {0}, life : {1}, type : {1}, reroll : {0, 5, 25}] :
        d.reroll = 5 => Len(entities) >= 25}
CrowdUpdate == MgrUpdateStep({300}, CrowdDraws, MaxCrowdCalls)

\* WeirdVisualManager::getAllTriangles, called by the frame driver
\* (nth counts the calls made since the last update, up to two)
MgrGetAllTriangles ==
    LET nth == IF mgr_call.op = "getAllTriangles" THEN mgr_call.nth + 1 ELSE 1
    IN  /\ nth <= 2
        /\ mgr_call' = [op |-> "getAllTriangles", nth |-> nth,
                        result |-> getAllTriangles(entities)]
        /\ UNCHANGED <<entities, spawnTimer, spawnInterval, maxEntities, nextId, mgr_calls>>
        /\ UNCHANGED <<pbVars, entVars, fldVars>>

(***************************************************************************)
(* FractalGameOfLifeSystem  (src/src/fractal_system.cpp)                  *)
(*                                                                         *)
(* fld is the object, a record of its data members.  A grid is a sequence  *)
(* of rows, each row a sequence of cells; rows need not have equal length, *)
(* as with std::vector<std::vector<float>>.  Coordinates x, y are the      *)
(* code's 0-based indices.                                                 *)
(*                                                                         *)
(* operator[] outside a row is undefined behaviour.  Its outcomes here:    *)
(* the call aborts (fld_alive becomes FALSE), or it goes on with a read    *)
(* that yields an arbitrary value and a write that lands in no grid.       *)
(* fld_fault records that such an access happened.                         *)
(***************************************************************************)
BlackColor == <<255, 0, 0, 0>>

\* std::vector<T>(w, v)
Row(w, v) == [i \in 1..w |-> v]
MakeGrid(w, h, v) == [j \in 1..h |-> Row(w, v)]

\* g.resize(h, std::vector<T>(w, v)): rows that stay keep their length
vector_resize(g, h, w, v) == [j \in 1..h |-> IF j <= Len(g) THEN g[j] ELSE Row(w, v)]

InExtent(g, x, y) == y >= 0 /\ y < Len(g) /\ x >= 0 /\ x < Len(g[y + 1])
Get(g, x, y, junk) == IF InExtent(g, x, y) THEN g[y + 1][x + 1] ELSE junk
Put(g, x, y, v) == IF InExtent(g, x, y) THEN [g EXCEPT ![y + 1][x + 1] = v] ELSE g

\* the cells (x, y) with 0 <= x < width, 0 <= y < height
Declared(s) == {c \in (0..(s.width - 1)) \X (0..(s.height - 1)) : TRUE}

FieldWidths   == {3, 4}
FieldHeights  == {2, 3}
ResizeWidths  == {0 - 1, 3, 4}
ResizeHeights == {2, 3}
\* q is the quantile of the mood draws, cq that of the per-cell draws
InitDraws     == {d \in [q : Quantiles, cq : Quantiles] : d.cq = d.q}

\* the seed of cell (x, y): lines 29-31
SeedCell(x, y, cq) ==
    LET noise1 == MulF(SinF(x * 100), CosF(y * 80))
        noise2 == MulF(SinF(x * 30 + y * 50), 500)
    IN  IF noise1 + noise2 + Pick(-500, 500, cq) > 0 THEN Pick(300, 1000, cq) ELSE 0

\* initialize() indexes a grid outside its extent
initializeOutside(s) ==
    \E g \in {s.grid, s.energyGrid, s.trailGrid} :
        \E c \in Declared(s) : ~InExtent(g, c[1], c[2])

initialize(s0, d) ==
    With(s0, LAMBDA s :
        LET seeded(g, f(_, _)) ==
                [j \in 1..Len(g) |->
                    [i \in 1..Len(g[j]) |->
                        IF i <= s.width /\ j <= s.height THEN f(i - 1, j - 1) ELSE g[j][i]]]
            seed(x, y)   == SeedCell(x, y, d.cq)
            energy(x, y) == Pick(0, 500, d.cq)
            trail(x, y)  == 0
        IN  [s EXCEPT
                !.grid          = seeded(@, seed),
                !.energyGrid    = seeded(@, energy),
                !.trailGrid     = seeded(@, trail),
                !.fractalType   = Pick(0, 8, d.q),
                !.zoomLevel     = Pick(50, 5000, d.q),
                !.center        = Vec3(Pick(-3000, 3000, d.q), Pick(-3000, 3000, d.q), 0),
                !.warpIntensity = Pick(500, 3000, d.q),
                !.pulseSpeed    = Pick(500, 3000, d.q),
                !.chaosLevel    = Pick(200, 1000, d.q),
                !.attractors    = [i \in 1..Pick(2, 6, d.q) |->
                                    Vec3(Pick(-2000, 2000, d.q), Pick(-2000, 2000, d.q),
                                         Pick(-1000, 1000, d.q))]])

FractalGameOfLifeSystem_ctor(w, h, d) ==
    initialize([width |-> w, height |-> h,
                grid       |-> MakeGrid(w, h, 0),
                nextGrid   |-> MakeGrid(w, h, 0),
                energyGrid |-> MakeGrid(w, h, 0),
                velocityX  |-> MakeGrid(w, h, 0),
                velocityY  |-> MakeGrid(w, h, 0),
                colorGrid  |-> MakeGrid(w, h, BlackColor),
                trailGrid  |-> MakeGrid(w, h, 0),
                time |-> 0, fractalType |-> 0, zoomLevel |-> Scale,
                center |-> Vec3(0, 0, 0), warpIntensity |-> Scale, colorShift |-> 0,
                pulseSpeed |-> Scale, chaosLevel |-> Scale \div 2, isTripping |-> FALSE,
                attractors |-> <<>>], d)

\* resize's first two lines, all that it does before a negative size throws
\* std::length_error at line 309
resize_assign(s, newWidth, newHeight) == [s EXCEPT !.width = newWidth, !.height = newHeight]
resize_throws(newWidth, newHeight) == newWidth < 0 \/ newHeight < 0

\* lines 309-315
resize_grids(s0) ==
    With(s0, LAMBDA s :
        [s EXCEPT
            !.grid       = vector_resize(@, s.height, s.width, 0),
            !.nextGrid   = vector_resize(@, s.height, s.width, 0),
            !.energyGrid = vector_resize(@, s.height, s.width, 0),
            !.velocityX  = vector_resize(@, s.height, s.width, 0),
            !.velocityY  = vector_resize(@, s.height, s.width, 0),
            !.colorGrid  = vector_resize(@, s.height, s.width, BlackColor),
            !.trailGrid  = vector_resize(@, s.height, s.width, 0)])

resize(s, newWidth, newHeight, d) ==
    initialize(resize_grids(resize_assign(s, newWidth, newHeight)), d)

\* ---- pattern injection.  A stamp is the sequence of setCell calls made.
setCellGuard(s, x, y) == x >= 0 /\ x < s.width /\ y >= 0 /\ y < s.height

setCell(s, x, y, value) ==
    IF setCellGuard(s, x, y) THEN [s EXCEPT !.grid = Put(@, x, y, value)] ELSE s

RECURSIVE SetCellsFrom(_, _, _)
SetCellsFrom(s, cells, k) ==
    IF k > Len(cells) THEN s
    ELSE With(setCell(s, cells[k][1], cells[k][2], cells[k][3]), LAMBDA t :
            SetCellsFrom(t, cells, k + 1))
SetCells(s, cells) == With(cells, LAMBDA cs : SetCellsFrom(s, cs, 1))

\* some setCell of the stamp writes outside the row it indexes
StampOutside(s, cells) ==
    With(cells, LAMBDA cs :
        \E k \in 1..Len(cs) :
            setCellGuard(s, cs[k][1], cs[k][2]) /\ ~InExtent(s.grid, cs[k][1], cs[k][2]))

SpinnerStamp_noGuard(s, cx, cy) ==
    << <<cx, cy, Scale>>, <<cx - 1, cy, Scale>>, <<cx + 1, cy, Scale>>,
       <<cx, cy - 1, Scale>>, <<cx, cy + 1, Scale>> >>

SpinnerStamp(s, cx, cy) ==
    IF cx >= 1 /\ cx < s.width - 1 /\ cy >= 1 /\ cy < s.height - 1
    THEN << <<cx, cy, Scale>>, <<cx - 1, cy, Scale>>, <<cx + 1, cy, Scale>>,
            <<cx, cy - 1, Scale>>, <<cx, cy + 1, Scale>> >>
    ELSE <<>>

GliderStamp(s, cx, cy) ==
    IF cx >= 2 /\ cx < s.width - 2 /\ cy >= 2 /\ cy < s.height - 2
    THEN << <<cx, cy, Scale>>, <<cx + 1, cy + 1, Scale>>, <<cx - 1, cy + 2, Scale>>,
            <<cx, cy + 2, Scale>>, <<cx + 1, cy + 2, Scale>> >>
    ELSE <<>>

ExploderStamp(s, cx, cy) ==
    IF cx >= 2 /\ cx < s.width - 2 /\ cy >= 2 /\ cy < s.height - 2
    THEN << <<cx - 1, cy - 1, Scale>>, <<cx - 1, cy, Scale>>, <<cx - 1, cy + 1, Scale>>,
            <<cx + 1, cy - 1, Scale>>, <<cx + 1, cy + 1, Scale>> >>
    ELSE <<>>

\* q is the quantile of every randomFloat(0, 1) the blob draws
ChaosBlobStamp(s, cx, cy, q) ==
    IF cx >= 3 /\ cx < s.width - 3 /\ cy >= 3 /\ cy < s.height - 3
    THEN LET offs == [k \in 1..49 |-> <<((k - 1) % 7) - 3, ((k - 1) \div 7) - 3>>]
             d2(o) == o[1] * o[1] + o[2] * o[2]
             hit(o) == d2(o) <= 9 /\ Pick(0, Scale, q) < 600 - 50 * d2(o)
             sel == SelectSeq(offs, hit)
         IN  [k \in 1..Len(sel) |-> <<cx + sel[k][1], cy + sel[k][2], Scale>>]
    ELSE <<>>

EnergyVortexStamp(s, cx, cy) ==
    IF cx >= 4 /\ cx < s.width - 4 /\ cy >= 4 /\ cy < s.height - 4
    THEN LET ring == [k \in 1..32 |->
                        LET r   == ((k - 1) \div 8) + 1
                            rad == TruncDiv(45 * ((k - 1) % 8) * PiF, 180) + r * 500
                        IN  <<cx + TruncDiv(r * CosF(rad), Scale),
                              cy + TruncDiv(r * SinF(rad), Scale),
                              Scale - (r - 1) * 200>>]
         IN  SelectSeq(ring, LAMBDA c : setCellGuard(s, c[1], c[2])) \o << <<cx, cy, Scale>> >>
    ELSE <<>>

injectSpinner(s, cx, cy)      == SetCells(s, SpinnerStamp(s, cx, cy))
injectGlider(s, cx, cy)       == SetCells(s, GliderStamp(s, cx, cy))
injectExploder(s, cx, cy)     == SetCells(s, ExploderStamp(s, cx, cy))
injectChaosBlob(s, cx, cy, q) == SetCells(s, ChaosBlobStamp(s, cx, cy, q))
injectEnergyVortex(s, cx, cy) == SetCells(s, EnergyVortexStamp(s, cx, cy))

\* ---- arithmetic used by update
\* C's fmod and %: the result has the sign of the dividend
FmodF(a, m) == With(a, LAMBDA v : v - m * TruncDiv(v, m))

\* unqualified abs(float): the float overload, or int abs(int) after the
\* argument's conversion to int, whichever the build's headers select
AbsC(v, ia) == IF ia THEN Abs(TruncDiv(v, Scale)) * Scale ELSE Abs(v)

RECURSIVE ISqrtIter(_, _, _)
ISqrtIter(n, lo, hi) ==
    IF lo >= hi THEN lo
    ELSE With((lo + hi + 1) \div 2, LAMBDA mid :
            IF mid * mid <= n THEN ISqrtIter(n, mid, hi) ELSE ISqrtIter(n, lo, mid - 1))
ISqrt(n) == With(n, LAMBDA v : ISqrtIter(v, 0, Min(v, 46340)))

\* sqrt(a * a + b * b) of two fixed-point numbers
HypotF(a, b) ==
    With(<<a, b>>, LAMBDA p :
        IF Abs(p[1]) <= 32000 /\ Abs(p[2]) <= 32000 THEN ISqrt(p[1] * p[1] + p[2] * p[2])
        ELSE With(<<TruncDiv(p[1], 8), TruncDiv(p[2], 8)>>, LAMBDA e :
                8 * ISqrt(e[1] * e[1] + e[2] * e[2])))

\* the sum of f over S
RECURSIVE SumFrom(_, _)
SumFrom(f, S) ==
    IF S = {} THEN 0
    ELSE With(CHOOSE e \in S : TRUE, LAMBDA e : f[e] + SumFrom(f, S \ {e}))
SumOver(f, S) == With(<<f, S>>, LAMBDA p : SumFrom(p[1], p[2]))

\* (uint8_t)(f * 255).  A value that truncates outside 0..255 is undefined
\* behaviour of the conversion: conv says whether the build wraps it modulo
\* 256 or saturates it.
ByteOutOfRange(f) == With(TruncDiv(f * 255, Scale), LAMBDA t : t < 0 \/ t > 255)
ToByte(f, conv) ==
    With(TruncDiv(f * 255, Scale), LAMBDA t :
        IF t >= 0 /\ t <= 255 THEN t
        ELSE IF conv = "wrap" THEN t % 256
        ELSE IF t < 0 THEN 0 ELSE 255)

\* utils.cpp hsvToRgb; the three channels before their conversion to bytes
hsvChannels(h0, sat, v0, ia) ==
    With(<<h0, v0, MulF(v0, sat)>>, LAMBDA p :
        LET h == p[1]
            v == p[2]
            c == p[3]
            x == MulF(c, Scale - AbsC(FmodF(TruncDiv(h, 60), 2 * Scale) - Scale, ia))
            m == v - c
        IN  With(<<x, m>>, LAMBDA xm :
                IF h >= 0 /\ h < 60 * Scale THEN <<c + xm[2], xm[1] + xm[2], xm[2]>>
                ELSE IF h >= 60 * Scale /\ h < 120 * Scale THEN <<xm[1] + xm[2], c + xm[2], xm[2]>>
                ELSE IF h >= 120 * Scale /\ h < 180 * Scale THEN <<xm[2], c + xm[2], xm[1] + xm[2]>>
                ELSE IF h >= 180 * Scale /\ h < 240 * Scale THEN <<xm[2], xm[1] + xm[2], c + xm[2]>>
                ELSE IF h >= 240 * Scale /\ h < 300 * Scale THEN <<xm[1] + xm[2], xm[2], c + xm[2]>>
                ELSE <<c + xm[2], xm[2], xm[1] + xm[2]>>))

hsvToRgb(h, sat, v, ia, conv) ==
    With(hsvChannels(h, sat, v, ia), LAMBDA ch :
        <<255, ToByte(ch[1], conv), ToByte(ch[2], conv), ToByte(ch[3], conv)>>)

hsvToRgbUndefined(h, sat, v, ia) ==
    With(hsvChannels(h, sat, v, ia), LAMBDA ch :
        ByteOutOfRange(ch[1]) \/ ByteOutOfRange(ch[2]) \/ ByteOutOfRange(ch[3]))

\* ---- fractals.cpp: the escape-time family.  z is (zx, zy), c is (cx, cy),
\* p the previous z (Phoenix).
\* one turn of the loop on st = <<zx, zy, px, py, i, r>>; r is the value
\* returned, -1 while the loop runs
EscapeStep(kind, st, cx, cy, maxIterations, bailout, ia) ==
    IF st[6] >= 0 THEN st
    ELSE IF st[5] >= maxIterations THEN [st EXCEPT ![6] = Scale]
    ELSE With(<<MulF(st[1], st[1]), MulF(st[2], st[2]), 2 * MulF(st[1], st[2])>>, LAMBDA q :
            LET zx2 == q[1]
                zy2 == q[2]
                zxzy == q[3]
                temp == zx2 - zy2 + cx + (IF kind = "phoenix" THEN MulF(500, st[3]) ELSE 0)
                nzy == CASE kind = "ship"    -> AbsC(zxzy, ia) + cy
                         [] kind = "tricorn" -> -zxzy + cy
                         [] kind = "phoenix" -> zxzy + cy + MulF(500, st[4])
                         [] OTHER            -> zxzy + cy
                nzx == IF kind = "ship" THEN AbsC(temp, ia) ELSE temp
            IN  IF zx2 + zy2 > bailout
                THEN [st EXCEPT ![6] = TruncDiv(st[5] * Scale, maxIterations)]
                ELSE <<nzx, nzy, st[1], st[2], st[5] + 1, -1>>)

\* n turns of the loop, by halves
RECURSIVE EscapeRun(_, _, _, _, _, _, _, _)
EscapeRun(kind, st, n, cx, cy, maxIterations, bailout, ia) ==
    IF st[6] >= 0 THEN st
    ELSE IF n <= 1 THEN EscapeStep(kind, st, cx, cy, maxIterations, bailout, ia)
    ELSE With(EscapeRun(kind, st, n \div 2, cx, cy, maxIterations, bailout, ia), LAMBDA h :
            EscapeRun(kind, h, n - n \div 2, cx, cy, maxIterations, bailout, ia))

EscapeTime(kind, zx, zy, cx, cy, px, py, i, maxIterations, bailout, ia) ==
    EscapeRun(kind, <<zx, zy, px, py, i, -1>>, maxIterations + 1 - i,
              cx, cy, maxIterations, bailout, ia)[6]

computeMandelbrot_bailout4(x, y) == EscapeTime("mandelbrot", 0, 0, x, y, 0, 0, 0, 25, 4 * Scale, FALSE)
computeMandelbrot(x, y)      == EscapeTime("mandelbrot", 0, 0, x, y, 0, 0, 0, 25, 16 * Scale, FALSE)
computeJulia(x, y, cx, cy)   == EscapeTime("julia", x, y, cx, cy, 0, 0, 0, 25, 16 * Scale, FALSE)
computeBurningShip(x, y, ia) == EscapeTime("ship", 0, 0, x, y, 0, 0, 0, 20, 16 * Scale, ia)
computeTricorn(x, y)         == EscapeTime("tricorn", 0, 0, x, y, 0, 0, 0, 50, 4 * Scale, FALSE)
computePhoenix(x, y)         == EscapeTime("phoenix", 0, 0, x, y, 0, 0, 0, 50, 4 * Scale, FALSE)

computePsychedelicWaves(x, y) ==
    MulF(MulF(SinF(5 * x), CosF(3 * y)) + SinF(2 * MulF(x, y)) + CosF(x + y), 500) + 500

computeChaosFractal(x, y, ia) ==
    LET term == [i \in 0..4 |->
                    TruncDiv(MulF(SinF(2 * (i + 1) * x), CosF(TruncDiv(3 * (i + 1) * y, 2))),
                             i + 1)]
    IN  FmodF(AbsC(SumOver(term, 0..4), ia), Scale)

\* a / b as a fixed-point number, for two numbers of the same unit, b > 0
DivF(a, b) ==
    With(<<Abs(a), b, a < 0>>, LAMBDA p :
        With(IF p[2] > 2000000 THEN p[1] \div (p[2] \div Scale)
             ELSE (p[1] \div p[2]) * Scale + ((p[1] % p[2]) * Scale) \div p[2], LAMBDA m :
            IF p[3] THEN -m ELSE m))

\* computeNova, lines 95-116.  The step z - (z^3 - zx) / (9 |z|^2) is computed
\* as z - ((z^2 / |z|^2) * z - zx / |z|^2) / 9, the same quotient with the
\* division done first, so that z^3 need not be held; |z|^2 is taken in
\* millionths while |z| <= 10, where the test denominator < 0.001 is decided.
NovaFine == 10 * Scale
\* one turn of the loop on st = <<zx, zy, i, r>>; r is the value returned,
\* -1 while the loop runs
NovaStep(st, ia) ==
    IF st[4] >= 0 THEN st
    ELSE IF st[3] >= 50 THEN [st EXCEPT ![4] = Scale]
    ELSE With(IF Abs(st[1]) <= NovaFine /\ Abs(st[2]) <= NovaFine
              THEN <<st[1] * st[1] - st[2] * st[2], 2 * st[1] * st[2],
                     st[1] * st[1] + st[2] * st[2], Scale, TRUE>>
              ELSE <<MulF(st[1], st[1]) - MulF(st[2], st[2]), 2 * MulF(st[1], st[2]),
                     MulF(st[1], st[1]) + MulF(st[2], st[2]), 1, FALSE>>, LAMBDA p :
         IF p[5] /\ 9 * p[3] < Scale THEN [st EXCEPT ![4] = TruncDiv(st[3] * Scale, 50)]
         ELSE With(<<DivF(p[1], p[3]), DivF(p[2], p[3]), DivF(st[1] * p[4], p[3])>>, LAMBDA q :
              With(<<st[1] - TruncDiv(MulF(q[1], st[1]) - MulF(q[2], st[2]) - q[3], 9),
                     st[2] - TruncDiv(MulF(q[1], st[2]) + MulF(q[2], st[1]), 9)>>, LAMBDA n :
                 IF AbsC(n[1] - st[1], ia) + AbsC(n[2] - st[2], ia) < 1
                 THEN [st EXCEPT ![4] = TruncDiv(st[3] * Scale, 50)]
                 ELSE <<n[1], n[2], st[3] + 1, -1>>)))

\* n turns of the loop, by halves
RECURSIVE NovaRun(_, _, _)
NovaRun(st, n, ia) ==
    IF st[4] >= 0 THEN st
    ELSE IF n <= 1 THEN NovaStep(st, ia)
    ELSE With(NovaRun(st, n \div 2, ia), LAMBDA h : NovaRun(h, n - n \div 2, ia))
computeNova(x, y, ia) == NovaRun(<<x, y, 0, -1>>, 51, ia)[4]

\* computeStrangeAttractor, lines 122-130: ten steps of the Henon map, then
\* fmod(sqrt(x * x + y * y), 1).  The result is a record: nan says that the
\* value is NaN, v is the value otherwise.  HenonOrbit stops at the first
\* step i whose |x| exceeds HenonCap; from there |x| at least squares at
\* every step (|x'| >= 1.4 x^2 - 1 - |y|, |y| <= 0.3 * 200), so that three
\* steps later x * x exceeds the largest float: x becomes -inf, or the
\* float x * x under the root is inf, sqrt gives inf and fmod(inf, 1) is NaN.
\* An orbit that passes the cap only at steps 8 to 10 ends on a float above
\* 200 whose square may or may not be finite: by the size of x at step 8,
\* and a float of 2^23 or more has no fractional part.
HenonCap == 200 * Scale
RECURSIVE HenonOrbit(_, _, _)
HenonOrbit(x, y, i) ==
    IF i = 10 \/ Abs(x) > HenonCap THEN <<x, y, i>>
    ELSE With(<<Scale - MulF(MulF(1400, x), x) + y, MulF(300, x)>>, LAMBDA n :
            HenonOrbit(n[1], n[2], i + 1))
computeStrangeAttractor(x, y) ==
    With(HenonOrbit(x, y, 0), LAMBDA o :
        IF Abs(o[1]) <= HenonCap
        THEN [nan |-> FALSE, v |-> FmodF(HypotF(o[1], o[2]), Scale)]
        ELSE IF o[3] <= 7 THEN [nan |-> TRUE, v |-> 0]
        ELSE IF o[3] = 8 THEN [nan |-> Abs(o[1]) > 50917 * Scale, v |-> 0]
        ELSE IF o[3] = 9 /\ Abs(o[1]) >= 2448 * Scale THEN [nan |-> FALSE, v |-> 0]
        ELSE [nan |-> FALSE, v |-> FmodF(Abs(o[1]), Scale)])

\* the switch on fractalType % 9, lines 179-190; for the Strange Attractor
\* the value is that of a result that is not NaN, and fractalNaN says whether
\* the result is NaN
fractalNaN(fractalType, warpX, warpY) ==
    fractalType % 9 = 7 /\ computeStrangeAttractor(warpX, warpY).nan
fractalValue(fractalType, warpX, warpY, time, ia) ==
    With(<<fractalType % 9, warpX, warpY>>, LAMBDA p :
        CASE p[1] = 0 -> computeMandelbrot(p[2], p[3])
          [] p[1] = 1 -> computeJulia(p[2], p[3], SinF(time \div 2), CosF(TruncDiv(7 * time, 10)))
          [] p[1] = 2 -> computeBurningShip(p[2], p[3], ia)
          [] p[1] = 3 -> computeTricorn(p[2], p[3])
          [] p[1] = 4 -> computePhoenix(p[2], p[3])
          [] p[1] = 5 -> computeNova(p[2], p[3], ia)
          [] p[1] = 6 -> computePsychedelicWaves(p[2], p[3])
          [] p[1] = 7 -> computeStrangeAttractor(p[2], p[3]).v
          [] p[1] = 8 -> computeChaosFractal(p[2], p[3], ia))

\* ---- update, lines 52-84: time, the 5% mood toggle, the parameter drift
MoodDraws == [q : Quantiles, toggle : BOOLEAN]

\* lines 56-67: the toggle of isTripping and the re-draws it makes
update_toggle_redrawOnLeave(s, d) ==
    IF ~s.isTripping
    THEN [s EXCEPT !.isTripping    = TRUE,
                   !.warpIntensity = Pick(5000, 15000, d.q),
                   !.pulseSpeed    = Pick(3000, 8000, d.q),
                   !.chaosLevel    = Pick(900, 1000, d.q),
                   !.fractalType   = Pick(0, 12, d.q),
                   !.zoomLevel     = MulF(@, Pick(300, 3000, d.q))]
    ELSE [s EXCEPT !.isTripping    = FALSE,
                   !.warpIntensity = Pick(2000, 6000, d.q),
                   !.pulseSpeed    = Pick(1500, 4000, d.q),
                   !.chaosLevel    = Pick(600, 900, d.q),
                   !.fractalType   = Pick(0, 12, 1 - d.q)]

update_toggle(s, d) ==
    IF ~s.isTripping
    THEN [s EXCEPT !.isTripping    = TRUE,
                   !.warpIntensity = Pick(5000, 15000, d.q),
                   !.pulseSpeed    = Pick(3000, 8000, d.q),
                   !.chaosLevel    = Pick(900, 1000, d.q),
                   !.fractalType   = Pick(0, 12, d.q),
                   !.zoomLevel     = MulF(@, Pick(300, 3000, d.q))]
    ELSE [s EXCEPT !.isTripping    = FALSE,
                   !.warpIntensity = Pick(2000, 6000, d.q),
                   !.pulseSpeed    = Pick(1500, 4000, d.q),
                   !.chaosLevel    = Pick(600, 900, d.q)]

update_mood(s, deltaTime, d) ==
    LET time == s.time + MulF(deltaTime, s.pulseSpeed)
        s1 == [s EXCEPT !.time = time]
        s2 == IF ~d.toggle THEN s1 ELSE update_toggle(s1, d)
        chaos == s2.chaosLevel
        colorShift == s.colorShift + MulF(deltaTime, Pick(2000, 8000, d.q))
        drift(v, k) == MulF(MulF(v, chaos), k)
    IN  [s2 EXCEPT
            !.colorShift = colorShift,
            !.zoomLevel  = MulF(@, Scale + drift(SinF(2 * time), 100)),
            !.center     = Vec3(@.x + drift(SinF(TruncDiv(17 * time, 10) + colorShift), 50),
                                @.y + drift(CosF(TruncDiv(13 * time, 10) + MulF(colorShift, 700)), 50),
                                @.z + drift(SinF(TruncDiv(9 * time, 10)), 20)),
            !.attractors = [i \in 1..Len(@) |->
                Vec3(@[i].x + drift(SinF(MulF(time, Pick(1000, 3000, d.q))), 100),
                     @[i].y + drift(CosF(MulF(time, Pick(1000, 3000, d.q))), 100),
                     @[i].z + drift(SinF(MulF(time, Pick(500, 2000, d.q))), 50))]]

\* ---- update, lines 87-257: the interior cells, row by row
InteriorCount(s) == IF s.width > 2 /\ s.height > 2 THEN (s.width - 2) * (s.height - 2) ELSE 0
InteriorCell(s, k) == <<1 + ((k - 1) % (s.width - 2)), 1 + ((k - 1) \div (s.width - 2))>>

\* offsets of the three neighbourhoods, lines 95-121
Ring1 == {o \in (-1..1) \X (-1..1) : o # <<0, 0>>}
Ring2 == {o \in (-2..2) \X (-2..2) : o # <<0, 0>>}
Diagonals == {o \in (-2..2) \X (-2..2) : Abs(o[1]) = Abs(o[2]) /\ o[1] # 0}
Blast == (-3..3) \X (-3..3)

\* 0.3f / sqrt(dx * dx + dy * dy), line 224
Deposit_undivided(o) == 300
Deposit(o) == (300 * Scale) \div ISqrt((o[1] * o[1] + o[2] * o[2]) * Scale * Scale)

\* lines 130-169
ruleValue(ruleSet, current, totalNeighbors, time, chaosLevel, q) ==
    LET between(lo, hi) == totalNeighbors >= lo /\ totalNeighbors <= hi
        alive == current > 100
    IN  CASE ruleSet = 0 ->
                IF alive THEN (IF between(2000, 3500) THEN MulF(current, 1100) ELSE MulF(current, 800))
                ELSE (IF between(2800, 3200) THEN Pick(500, 1000, q) ELSE 0)
          [] ruleSet = 1 ->
                IF alive THEN (IF between(2000, 3000) THEN MulF(current, 1050) ELSE MulF(current, 900))
                ELSE (IF between(3500, 4000) THEN Pick(300, 800, q) ELSE 0)
          [] ruleSet = 2 ->
                IF totalNeighbors >= 2000 THEN Pick(400, 1200, q) ELSE MulF(current, 950)
          [] ruleSet = 3 ->
                IF alive THEN (IF between(3000, 4000) THEN MulF(current, 1200) ELSE MulF(current, 700))
                ELSE (IF between(3000, 4000) THEN Pick(600, 1000, q) ELSE 0)
          [] ruleSet = 4 ->
                LET smoothFactor == MulF(SinF(MulF(totalNeighbors, 500) + time), 500) + 500
                IN  MulF(current, 900) + MulF(MulF(smoothFactor, chaosLevel), 300)
          [] ruleSet = 5 ->
                MulF(current, 800) + Pick(0, MulF(MulF(totalNeighbors, 200), chaosLevel), q)
          [] OTHER -> current

\* line 240
storeNewValue_inPlace(s, x, y, newValue) == [s EXCEPT !.grid = Put(@, x, y, newValue)]
storeNewValue(s, x, y, newValue) == [s EXCEPT !.nextGrid = Put(@, x, y, newValue)]

CellDraws == [q : Quantiles, noise : BOOLEAN, junk : {0, Scale}, conv : {"wrap", "sat"}]

\* lines 92-124: totalNeighbors of cell (x, y); a read outside a row yields junk
cell_neighbors(s, x, y, junk) ==
    LET inside(o) == setCellGuard(s, x + o[1], y + o[2])
        at(o) == Get(s.grid, x + o[1], y + o[2], junk)
        neighbors1 == SumOver([o \in Ring1 |-> at(o)], Ring1)
        neighbors2 == SumOver([o \in Ring2 |-> IF inside(o) THEN MulF(at(o), 300) ELSE 0], Ring2)
        neighbors3 == SumOver([o \in Diagonals |-> IF inside(o) THEN MulF(at(o), 500) ELSE 0],
                              Diagonals)
    IN  neighbors1 + MulF(neighbors2, s.chaosLevel) + MulF(neighbors3, SinF(s.time + x * 100))

\* lines 172-177: the cell's point in the fractal plane and its warped image
cell_point(s, x, y) ==
    With(<<MulF(TruncDiv((2 * x - s.width) * Scale, s.width), s.zoomLevel) + s.center.x,
           MulF(TruncDiv((2 * y - s.height) * Scale, s.height), s.zoomLevel) + s.center.y>>,
         LAMBDA f :
            [fx |-> f[1], fy |-> f[2],
             warpX |-> f[1] + MulF(MulF(SinF(2 * s.time + 3 * f[2]), s.warpIntensity), 500),
             warpY |-> f[2] + MulF(MulF(CosF(TruncDiv(3 * s.time, 2) + 2 * f[1]), s.warpIntensity), 500)])

\* lines 89-210: newValue up to and including the velocity term
cell_moved(s, x, y, ia, d, pt) ==
    LET time == s.time
        chaos == s.chaosLevel
        current == Get(s.grid, x, y, d.junk)
        ruleSet == FmodF(TruncDiv(2 * time + x * 100 + y * 80, Scale), 6)
        ruled == With(cell_neighbors(s, x, y, d.junk), LAMBDA totalNeighbors :
                    ruleValue(ruleSet, current, totalNeighbors, time, chaos, d.q))
        blended == MulF(ruled, 600)
                    + MulF(MulF(fractalValue(s.fractalType, pt.warpX, pt.warpY, time, ia), 400), chaos)
        pull == [i \in 1..Len(s.attractors) |->
                    With(HypotF(pt.fx - s.attractors[i].x, pt.fy - s.attractors[i].y) + 1,
                         LAMBDA distance :
                            MulF(MulF(MulF((Scale * Scale) \div distance, 100), chaos),
                                 SinF(3 * time + 10 * distance)))]
        attracted == blended + SumOver(pull, 1..Len(s.attractors))
        velInfluence == MulF(SinF(2 * time + 5 * pt.fx), CosF(TruncDiv(17 * time, 10) + 4 * pt.fy))
        vx == MulF(Get(s.velocityX, x, y, d.junk), 950) + MulF(MulF(velInfluence, chaos), 100)
        vy == MulF(Get(s.velocityY, x, y, d.junk), 950)
                + MulF(MulF(CosF(TruncDiv(13 * time, 10) + 3 * pt.fx), chaos), 100)
    IN  With(<<vx, vy>>, LAMBDA vel :
            [current |-> current, vx |-> vel[1], vy |-> vel[2],
             moved |-> attracted + MulF(vel[1] + vel[2], 200),
             nan |-> fractalNaN(s.fractalType, pt.warpX, pt.warpY)])

\* Two floats the energy grid can hold beside the thousandths: NaN, and
\* -2^30, which is (float)INT_MIN * 0.5f.  A sum with either is that float
\* again (the terms added are below 32, half the spacing of floats below 2^30).
NaNF == 0 - 2^30 - 1
IntMinHalfF == 0 - 2^30
AddE(e, a) == With(<<e, a>>, LAMBDA p : IF p[1] \in {NaNF, IntMinHalfF} THEN p[1] ELSE p[1] + p[2])

\* energyGrid[y][x] += abs(newValue - current) * 0.5f when newValue is NaN.
\* The float abs gives NaN.  The integer abs takes (int)NaN, an undefined
\* conversion: a build that leaves the pattern INT_MIN ("wrap") has abs return
\* INT_MIN, a build that saturates ("sat") converts NaN to 0.
nanEnergy(energy, ia, conv) ==
    IF ~ia THEN NaNF
    ELSE IF conv = "wrap" THEN IntMinHalfF
    ELSE energy

\* lines 213-229: the energy accumulation and the explosion
cell_energy(s, x, y, ia, d, mv) ==
    With(IF mv.nan THEN nanEnergy(Get(s.energyGrid, x, y, d.junk), ia, d.conv)
         ELSE AddE(Get(s.energyGrid, x, y, d.junk), MulF(AbsC(mv.moved - mv.current, ia), 500)),
         LAMBDA energy :
            IF mv.nan
            THEN [exploded |-> FALSE,
                  burst |-> NaNF,
                  energyGrid |-> Put(s.energyGrid, x, y, energy)]
            ELSE IF energy > Pick(800, 1500, d.q)
            THEN [exploded |-> TRUE,
                  burst |-> mv.moved + Pick(500, 1000, d.q),
                  energyGrid |->
                    [j \in 1..Len(s.energyGrid) |-> [i \in 1..Len(s.energyGrid[j]) |->
                        LET o == <<i - 1 - x, j - 1 - y>>
                        IN  IF o = <<0, 0>> THEN 0
                            ELSE IF o \in Blast /\ setCellGuard(s, i - 1, j - 1)
                            THEN AddE(s.energyGrid[j][i], Deposit(o))
                            ELSE s.energyGrid[j][i]]]]
            ELSE [exploded |-> FALSE,
                  burst |-> mv.moved,
                  energyGrid |-> Put(s.energyGrid, x, y, energy)])

\* lines 232-255: the trail, the clamp, the noise and the colour
\* (std::max(a, NaN) is a and std::min(2.0f, NaN) is 2.0f: a comparison with
\* NaN is false)
cell_shade(s, x, y, ia, d, pt, burst) ==
    With(<<IF burst = NaNF THEN MulF(Get(s.trailGrid, x, y, d.junk), 920)
           ELSE Max(MulF(Get(s.trailGrid, x, y, d.junk), 920), MulF(burst, 300)),
           (IF burst = NaNF THEN 2 * Scale ELSE Max(0, Min(2 * Scale, burst)))
                + (IF d.noise THEN Pick(-500, 500, d.q) ELSE 0)>>,
         LAMBDA tn :
            LET time == s.time
                trail == tn[1]
                newValue == tn[2]
                intensity == newValue + trail
                hue0 == FmodF(180 * intensity + s.colorShift + 50 * pt.fx + 30 * pt.fy + 100 * time,
                              360 * Scale)
                saturation0 == 800 + MulF(SinF(3 * time + 5 * intensity), 200)
                brightness0 == Min(Scale, MulF(intensity, 500 + MulF(SinF(4 * time), 300)))
                hue == IF s.isTripping THEN hue0 + 60 * SinF(10 * time + x * 200) ELSE hue0
                saturation == IF s.isTripping THEN Scale ELSE saturation0
                brightness == IF s.isTripping
                              THEN MulF(brightness0, 700 + MulF(SinF(15 * time + y * 300), 300))
                              ELSE brightness0
            IN  With(<<hue, saturation, brightness>>, LAMBDA hsv :
                    [trail |-> trail, newValue |-> newValue,
                     color |-> hsvToRgb(hsv[1], hsv[2], hsv[3], ia, d.conv),
                     undefinedConversion |-> hsvToRgbUndefined(hsv[1], hsv[2], hsv[3], ia)]))

\* the iteration at (x, y) indexes some grid outside the row it indexes
cell_outside(s, x, y, exploded) ==
    \/ \E o \in Ring2 \cup {<<0, 0>>} :
            setCellGuard(s, x + o[1], y + o[2]) /\ ~InExtent(s.grid, x + o[1], y + o[2])
    \/ \E g \in {s.nextGrid, s.energyGrid, s.velocityX, s.velocityY, s.trailGrid} :
            ~InExtent(g, x, y)
    \/ ~InExtent(s.colorGrid, x, y)
    \/ exploded /\ \E o \in Blast :
            setCellGuard(s, x + o[1], y + o[2]) /\ ~InExtent(s.energyGrid, x + o[1], y + o[2])

\* One iteration of the cell loop at (x, y) on object s.  The result carries
\* the object after the iteration and what the iteration did.
update_cell(s, x, y, ia, d) ==
    With(cell_point(s, x, y), LAMBDA pt :
    With(cell_moved(s, x, y, ia, d, pt), LAMBDA mv :
    With(cell_energy(s, x, y, ia, d, mv), LAMBDA en :
    With(cell_shade(s, x, y, ia, d, pt, en.burst), LAMBDA sh :
        [s |-> [storeNewValue(s, x, y, sh.newValue) EXCEPT
                    !.velocityX  = Put(@, x, y, mv.vx),
                    !.velocityY  = Put(@, x, y, mv.vy),
                    !.energyGrid = en.energyGrid,
                    !.trailGrid  = Put(@, x, y, sh.trail),
                    !.colorGrid  = Put(@, x, y, sh.color)],
         newValue |-> sh.newValue,
         exploded |-> en.exploded,
         undefinedConversion |-> sh.undefinedConversion \/ (ia /\ mv.nan),
         outside  |-> cell_outside(s, x, y, en.exploded)]))))

\* ---- update, lines 262-291: the injection and the re-randomisation
UndefinedInts == {1, 10}
TailDraws ==
    {d \in [q : Quantiles, inject : BOOLEAN, patternType : 0..5, undefinedInt : UndefinedInts,
            rerandomise : BOOLEAN, push : BOOLEAN] :
        /\ ~(d.inject /\ d.rerandomise)
        /\ ~d.inject => d.patternType = 0 /\ d.undefinedInt = 1
        /\ ~d.rerandomise => ~d.push
        /\ ~(d.rerandomise \/ d.patternType = 3) => d.q = 0}

\* randomInt(lo, hi): with lo > hi the distribution's precondition is broken
randomIntUndefined(lo, hi) == lo > hi
randomInt(lo, hi, q, undefinedInt) == IF lo > hi THEN undefinedInt ELSE Pick(lo, hi, q)

InjectionStamp(s, d) ==
    LET cx == randomInt(10, s.width - 10, d.q, d.undefinedInt)
        cy == randomInt(10, s.height - 10, d.q, d.undefinedInt)
    IN  CASE d.patternType = 0 -> SpinnerStamp(s, cx, cy)
          [] d.patternType = 1 -> GliderStamp(s, cx, cy)
          [] d.patternType = 2 -> ExploderStamp(s, cx, cy)
          [] d.patternType = 3 -> ChaosBlobStamp(s, cx, cy, d.q)
          [] d.patternType = 4 -> EnergyVortexStamp(s, cx, cy)
          [] OTHER -> <<>>

update_rerandomise_keepNine(s, d) ==
    LET pushed == Append(s.attractors,
                         Vec3(Pick(-3000, 3000, d.q), Pick(-3000, 3000, d.q), Pick(-1000, 1000, d.q)))
    IN  [s EXCEPT
            !.fractalType   = Pick(0, 12, d.q),
            !.zoomLevel     = Pick(10, 10000, d.q),
            !.center        = Vec3(Pick(-5000, 5000, d.q), Pick(-5000, 5000, d.q), Pick(-2000, 2000, d.q)),
            !.warpIntensity = Pick(500, 20000, d.q),
            !.attractors    = IF ~d.push THEN @
                              ELSE IF Len(pushed) > 9 THEN Tail(pushed) ELSE pushed]

update_rerandomise_thirteen(s, d) == [s EXCEPT !.fractalType = Pick(0, 13, d.q)]

update_rerandomise(s, d) ==
    LET pushed == Append(s.attractors,
                         Vec3(Pick(-3000, 3000, d.q), Pick(-3000, 3000, d.q), Pick(-1000, 1000, d.q)))
    IN  [s EXCEPT
            !.fractalType   = Pick(0, 12, d.q),
            !.zoomLevel     = Pick(10, 10000, d.q),
            !.center        = Vec3(Pick(-5000, 5000, d.q), Pick(-5000, 5000, d.q), Pick(-2000, 2000, d.q)),
            !.warpIntensity = Pick(500, 20000, d.q),
            !.attractors    = IF ~d.push THEN @
                              ELSE IF Len(pushed) > 8 THEN Tail(pushed) ELSE pushed]

update_tail(s, d) ==
    LET injected == IF d.inject THEN SetCells(s, InjectionStamp(s, d)) ELSE s
    IN  IF d.rerandomise THEN update_rerandomise(injected, d) ELSE injected

\* ---- render, lines 294-303: setPixel for every cell of colorGrid inside the buffer
RECURSIVE render_from(_, _, _, _, _)
render_from(px, w, h, colorGrid, k) ==
    IF k > w * h THEN px
    ELSE LET x == (k - 1) % w
             y == (k - 1) \div w
         IN  With(IF InExtent(colorGrid, x, y)
                  THEN setPixel(px, w, h, x, y, colorGrid[y + 1][x + 1]) ELSE px,
                  LAMBDA painted : render_from(painted, w, h, colorGrid, k + 1))
render(px, w, h, s) == render_from(px, w, h, s.colorGrid, 1)

\* ---- the driver's calls
FieldDeltaTimes == {16, 500}
SetCellXs == {0 - 1, 1, 3}
SetCellYs == {1}
\* centres tried on the 20 x 20 field: on the limits of each guard, and outside
BigCentres ==
    {<<0, 5>>, <<1, 18>>, <<2, 2>>, <<17, 3>>, <<3, 16>>, <<4, 4>>, <<15, 15>>, <<16, 10>>,
     <<10, 19>>, <<0 - 1, 10>>, <<10, 20>>}
InjectCentres == {<<1, 1>>} \cup {c \in BigCentres : fld.width >= 20}

FldIdle ==
    /\ fld = [width |-> 0]
    /\ fld_pc = [phase |-> "idle", k |-> 0]
    /\ fld_call = [op |-> "none"]
    /\ fld_calls = 0
    /\ fld_events = 0
    /\ fld_snap = [width |-> 0]
    /\ fld_fault = FALSE
    /\ fld_alive = FALSE
    /\ intAbs = FALSE

FldInit ==
    \E w \in FieldWidths, h \in FieldHeights, d \in InitDraws, ia \in BOOLEAN :
        /\ fld = FractalGameOfLifeSystem_ctor(w, h, d)
        /\ fld_pc = [phase |-> "idle", k |-> 0]
        /\ fld_call = [op |-> "construct", w |-> w, h |-> h, d |-> d]
        /\ fld_calls = 0
        /\ fld_events = 0
        /\ fld_snap = fld
        /\ fld_fault = FALSE
        /\ fld_alive = TRUE
        /\ intAbs = ia

\* the pixel buffer the field is rendered into
PbForField ==
    /\ pixels = PixelBuffer_ctor(FieldBufW, FieldBufH)
    /\ pb_width = FieldBufW
    /\ pb_height = FieldBufH
    /\ pb_call = [op |-> "construct"]
    /\ pb_calls = 0

\* the driver may call: the object exists and no call is in progress
FldReady == fld_alive /\ fld_pc.phase = "idle" /\ fld_calls < MaxFieldCalls

FldResize ==
    /\ FldReady
    /\ \E w \in ResizeWidths, h \in ResizeHeights, d \in InitDraws, abort \in BOOLEAN :
        LET assigned == resize_assign(fld, w, h)
            throws   == resize_throws(w, h)
            sized    == resize_grids(assigned)
            outside  == ~throws /\ initializeOutside(sized)
        IN  /\ abort => outside
            /\ throws => d = [q |-> 0, cq |-> 0]
            /\ fld' = IF throws THEN assigned
                      ELSE IF abort THEN sized
                      ELSE resize(fld, w, h, d)
            /\ fld_alive' = ~(throws \/ abort)
            /\ fld_fault' = (fld_fault \/ outside)
            /\ fld_call' = [op |-> "resize", w |-> w, h |-> h, d |-> d]
            /\ fld_calls' = fld_calls + 1
            /\ UNCHANGED <<fld_pc, fld_events, fld_snap, intAbs, pbVars, entVars, mgrVars>>

FldInitialize ==
    /\ FldReady
    /\ \E d \in InitDraws, abort \in BOOLEAN :
        LET outside == initializeOutside(fld)
        IN  /\ abort => outside
            /\ fld' = IF abort THEN fld ELSE initialize(fld, d)
            /\ fld_alive' = ~abort
            /\ fld_fault' = (fld_fault \/ outside)
            /\ fld_call' = [op |-> "initialize", d |-> d]
            /\ fld_calls' = fld_calls + 1
            /\ UNCHANGED <<fld_pc, fld_events, fld_snap, intAbs, pbVars, entVars, mgrVars>>

\* a call that makes the setCell calls of stamp
FldStamp(op, x, y, stamp, abort) ==
    LET outside == StampOutside(fld, stamp)
    IN  /\ abort => outside
        /\ fld' = IF abort THEN fld ELSE SetCells(fld, stamp)
        /\ fld_alive' = ~abort
        /\ fld_fault' = (fld_fault \/ outside)
        /\ fld_call' = [op |-> op, x |-> x, y |-> y]
        /\ fld_calls' = fld_calls + 1
        /\ UNCHANGED <<fld_pc, fld_events, fld_snap, intAbs, pbVars, entVars, mgrVars>>

FldSetCell ==
    /\ FldReady
    /\ \E x \in SetCellXs, y \in SetCellYs, abort \in BOOLEAN :
        FldStamp("setCell", x, y, << <<x, y, Scale>> >>, abort)

FldInjectSpinner ==
    /\ FldReady
    /\ \E c \in InjectCentres, abort \in BOOLEAN :
        FldStamp("injectSpinner", c[1], c[2], SpinnerStamp(fld, c[1], c[2]), abort)

FldInjectGlider ==
    /\ FldReady
    /\ \E c \in InjectCentres, abort \in BOOLEAN :
        FldStamp("injectGlider", c[1], c[2], GliderStamp(fld, c[1], c[2]), abort)

FldInjectExploder ==
    /\ FldReady
    /\ \E c \in InjectCentres, abort \in BOOLEAN :
        FldStamp("injectExploder", c[1], c[2], ExploderStamp(fld, c[1], c[2]), abort)

FldInjectChaosBlob ==
    /\ FldReady
    /\ \E c \in InjectCentres, q \in Quantiles, abort \in BOOLEAN :
        FldStamp("injectChaosBlob", c[1], c[2], ChaosBlobStamp(fld, c[1], c[2], q), abort)

FldInjectEnergyVortex ==
    /\ FldReady
    /\ \E c \in InjectCentres, abort \in BOOLEAN :
        FldStamp("injectEnergyVortex", c[1], c[2], EnergyVortexStamp(fld, c[1], c[2]), abort)

FldRender ==
    /\ FldReady
    /\ pixels' = render(pixels, pb_width, pb_height, fld)
    /\ pb_call' = [op |-> "render", before |-> pixels]
    /\ fld_call' = [op |-> "render"]
    /\ fld_calls' = fld_calls + 1
    /\ UNCHANGED <<fld, fld_pc, fld_events, fld_snap, fld_fault, fld_alive, intAbs>>
    /\ UNCHANGED <<pb_width, pb_height, pb_calls, entVars, mgrVars>>

\* update(deltaTime) in steps: the mood, one step per interior cell, the swap,
\* the tail.  No other call runs between the steps of one update.
FldUpdateBegin ==
    /\ FldReady
    /\ \E deltaTime \in FieldDeltaTimes, d \in MoodDraws :
        /\ d.toggle => fld_events < MaxFieldEvents
        /\ fld' = update_mood(fld, deltaTime, d)
        /\ fld_snap' = fld'
        /\ fld_pc' = IF InteriorCount(fld) > 0 THEN [phase |-> "cells", k |-> 1]
                     ELSE [phase |-> "swap", k |-> 0]
        /\ fld_call' = [op |-> "update", deltaTime |-> deltaTime, d |-> d]
        /\ fld_calls' = fld_calls + 1
        /\ fld_events' = fld_events + (IF d.toggle THEN 1 ELSE 0)
        /\ UNCHANGED <<fld_fault, fld_alive, intAbs, pbVars, entVars, mgrVars>>

\* one iteration of the cell loop, lines 88-256, with its draws taken from D
\* and the outcome of an undefined colour conversion taken from Convs
UpdateCellStep(D, Convs) ==
    /\ fld_alive
    /\ fld_pc.phase = "cells"
    /\ \E c \in {InteriorCell(fld, fld_pc.k)} :
       \E d0 \in {e \in D :
                    /\ e.conv = "wrap"
                    /\ e.noise => fld_events < MaxFieldEvents
                    /\ e.junk # 0 => cell_outside(fld, c[1], c[2], TRUE)} :
       \E r0 \in {update_cell(fld, c[1], c[2], intAbs, d0)} :
       \E d \in IF r0.undefinedConversion THEN {[d0 EXCEPT !.conv = v] : v \in Convs} ELSE {d0},
          abort \in {FALSE, r0.outside} :
       \E r \in {IF d = d0 THEN r0 ELSE update_cell(fld, c[1], c[2], intAbs, d)} :
            /\ fld' = IF abort THEN fld ELSE r.s
            /\ fld_alive' = ~abort
            /\ fld_fault' = (fld_fault \/ r.outside)
            /\ fld_pc' = IF abort THEN fld_pc
                         ELSE IF fld_pc.k < InteriorCount(fld) THEN [phase |-> "cells", k |-> fld_pc.k + 1]
                         ELSE [phase |-> "swap", k |-> 0]
            /\ fld_call' = [op |-> "update.cell", x |-> c[1], y |-> c[2], d |-> d,
                            exploded |-> r.exploded, energyBefore |-> fld.energyGrid]
            /\ fld_events' = fld_events + (IF d.noise THEN 1 ELSE 0)
            /\ UNCHANGED <<fld_calls, fld_snap, intAbs, pbVars, entVars, mgrVars>>

FldUpdateCell == UpdateCellStep(CellDraws, {"wrap", "sat"})

\* line 260
FldUpdateSwap ==
    /\ fld_alive
    /\ fld_pc.phase = "swap"
    /\ fld' = [fld EXCEPT !.grid = fld.nextGrid, !.nextGrid = fld.grid]
    /\ fld_pc' = [phase |-> "tail", k |-> 0]
    /\ fld_call' = [op |-> "update.swap"]
    /\ UNCHANGED <<fld_calls, fld_events, fld_snap, fld_fault, fld_alive, intAbs>>
    /\ UNCHANGED <<pbVars, entVars, mgrVars>>

FldUpdateTail ==
    /\ fld_alive
    /\ fld_pc.phase = "tail"
    /\ \E d \in TailDraws, abort \in BOOLEAN :
        LET undefinedDraw == d.inject /\ (\/ randomIntUndefined(10, fld.width - 10)
                                          \/ randomIntUndefined(10, fld.height - 10))
            outside == d.inject /\ StampOutside(fld, InjectionStamp(fld, d))
        IN  /\ (d.inject \/ d.rerandomise) => fld_events < MaxFieldEvents
            /\ abort => (undefinedDraw \/ outside)
            /\ ~undefinedDraw => d.undefinedInt = 1
            /\ fld' = IF abort THEN fld ELSE update_tail(fld, d)
            /\ fld_alive' = ~abort
            /\ fld_fault' = (fld_fault \/ outside)
            /\ fld_pc' = [phase |-> "idle", k |-> 0]
            /\ fld_call' = [op |-> "update.tail", d |-> d]
            /\ fld_events' = fld_events + (IF d.inject \/ d.rerandomise THEN 1 ELSE 0)
            /\ UNCHANGED <<fld_calls, fld_snap, intAbs, pbVars, entVars, mgrVars>>

\* ---- the cell pass on a field wider and higher than the 7x7 window of an
\* explosion.  The draws of one pass take the same quantile, without a noise
\* draw, and an undefined conversion comes out as in the preceding cell.
BlastWidths == {6}
BlastHeights == {6}
BlastCellDraws ==
    {e \in CellDraws : ~e.noise /\ (fld_pc.k > 1 => e.q = fld_call.d.q)}
BlastConvs == IF fld_pc.k > 1 THEN {fld_call.d.conv} ELSE {"wrap", "sat"}

BlastInit ==
    \E w \in BlastWidths, h \in BlastHeights, d \in InitDraws :
        /\ fld = FractalGameOfLifeSystem_ctor(w, h, d)
        /\ fld_pc = [phase |-> "idle", k |-> 0]
        /\ fld_call = [op |-> "construct", w |-> w, h |-> h, d |-> d]
        /\ fld_calls = 0
        /\ fld_events = 0
        /\ fld_snap = fld
        /\ fld_fault = FALSE
        /\ fld_alive = TRUE
        /\ intAbs = FALSE

BlastUpdateCell == UpdateCellStep(BlastCellDraws, BlastConvs)

\* ---- update as one call.  d.mood, d.cell and d.tail are its draws; every
\* interior cell of the pass is given the draws d.cell.
update_swap(s) == [s EXCEPT !.grid = s.nextGrid, !.nextGrid = s.grid]

\* the iterations lo..hi of the cell loop, in the loop's order
RECURSIVE update_cells(_, _, _, _, _)
update_cells(s, lo, hi, ia, d) ==
    IF lo > hi THEN s
    ELSE IF lo = hi
    THEN update_cell(s, InteriorCell(s, lo)[1], InteriorCell(s, lo)[2], ia, d).s
    ELSE With(update_cells(s, lo, (lo + hi) \div 2, ia, d),
              LAMBDA t : update_cells(t, ((lo + hi) \div 2) + 1, hi, ia, d))

update(s, deltaTime, ia, d) ==
    With(update_mood(s, deltaTime, d.mood), LAMBDA m :
    With(update_cells(m, 1, InteriorCount(m), ia, d.cell), LAMBDA c :
    With(update_swap(c), LAMBDA w :
        update_tail(w, d.tail))))

\* ---- the driver's calls on a field too small to have interior cells: the
\* mood, the attractors and the mode name, over more calls than FldReady allows
MoodWidths  == {2}
MoodHeights == {2}
MoodDeltaTimes == {16}
UpdateDraws ==
    {d \in [mood : MoodDraws, cell : CellDraws, tail : TailDraws] :
        /\ d.cell = [q |-> 0, noise |-> FALSE, junk |-> 0, conv |-> "wrap"]
        /\ ~d.mood.toggle => d.mood.q = 0}
DrawnEvents(d) ==
    (IF d.mood.toggle THEN 1 ELSE 0) + (IF d.tail.inject \/ d.tail.rerandomise THEN 1 ELSE 0)

MoodInit ==
    \E w \in MoodWidths, h \in MoodHeights, d \in InitDraws :
        /\ fld = FractalGameOfLifeSystem_ctor(w, h, d)
        /\ fld_pc = [phase |-> "idle", k |-> 0]
        /\ fld_call = [op |-> "construct", w |-> w, h |-> h, d |-> d]
        /\ fld_calls = 0
        /\ fld_events = 0
        /\ fld_snap = fld
        /\ fld_fault = FALSE
        /\ fld_alive = TRUE
        /\ intAbs = FALSE

MoodReady == fld_alive /\ fld_calls < MaxMoodCalls

MoodUpdate ==
    /\ MoodReady
    /\ \E deltaTime \in MoodDeltaTimes, d \in UpdateDraws, abort \in BOOLEAN :
        LET undefinedDraw == d.tail.inject /\ (\/ randomIntUndefined(10, fld.width - 10)
                                               \/ randomIntUndefined(10, fld.height - 10))
        IN  /\ fld_events + DrawnEvents(d) <= MaxMoodEvents
            /\ abort => undefinedDraw
            /\ ~undefinedDraw => d.tail.undefinedInt = 1
            /\ fld' = IF abort THEN update_swap(update_mood(fld, deltaTime, d.mood))
                      ELSE update(fld, deltaTime, intAbs, d)
            /\ fld_alive' = ~abort
            /\ fld_snap' = fld
            /\ fld_call' = [op |-> "update", deltaTime |-> deltaTime, d |-> d]
            /\ fld_calls' = fld_calls + 1
            /\ fld_events' = fld_events + DrawnEvents(d)
            /\ UNCHANGED <<fld_pc, fld_fault, intAbs, pbVars, entVars, mgrVars>>

\* lines 320-333
getCurrentModeName(s) ==
    CASE s.fractalType = 0 -> "Hallucinogenic Game of Life"
      [] s.fractalType = 1 -> "Psychedelic Mandelbrot"
      [] s.fractalType = 2 -> "Trippy Julia Set"
      [] s.fractalType = 3 -> "Warping Cellular Automata"
      [] s.fractalType = 4 -> "Fractal Fluid Dynamics"
      [] s.fractalType = 5 -> "Lorenz Attractor"
      [] s.fractalType = 6 -> "Psychedelic Wave"
      [] s.fractalType = 7 -> "Chaos Field"
      [] s.fractalType = 8 -> "Quantum Fractal"
      [] OTHER -> "Unknown"

MoodGetCurrentModeName ==
    /\ MoodReady
    /\ fld_call' = [op |-> "getCurrentModeName", result |-> getCurrentModeName(fld)]
    /\ fld_snap' = fld
    /\ fld_calls' = fld_calls + 1
    /\ UNCHANGED <<fld, fld_pc, fld_events, fld_fault, fld_alive, intAbs, pbVars, entVars, mgrVars>>

MoodInitialize ==
    /\ MoodReady
    /\ \E d \in InitDraws :
        /\ fld' = initialize(fld, d)
        /\ fld_snap' = fld
        /\ fld_call' = [op |-> "initialize", d |-> d]
        /\ fld_calls' = fld_calls + 1
        /\ UNCHANGED <<fld_pc, fld_events, fld_fault, fld_alive, intAbs, pbVars, entVars, mgrVars>>

\* ---- the driver's calls on the smallest field on which the centre draws of
\* the injection are defined: randomInt(10, width - 10) needs width >= 20
BigWidths  == {20}
BigHeights == {20}
\* the draws of an update in which the injection fires or no rare event does
InjectDraws ==
    {d \in UpdateDraws :
        /\ ~d.mood.toggle /\ ~d.tail.rerandomise
        /\ d.tail.undefinedInt = 1}

BigInit ==
    \E w \in BigWidths, h \in BigHeights, d \in InitDraws :
        /\ fld = FractalGameOfLifeSystem_ctor(w, h, d)
        /\ fld_pc = [phase |-> "idle", k |-> 0]
        /\ fld_call = [op |-> "construct", w |-> w, h |-> h, d |-> d]
        /\ fld_calls = 0
        /\ fld_events = 0
        /\ fld_snap = fld
        /\ fld_fault = FALSE
        /\ fld_alive = TRUE
        /\ intAbs = FALSE

\* update(deltaTime) as one call; fld_call.swapped is the grid after line 260
BigUpdate ==
    /\ fld_alive
    /\ fld_calls < MaxBigUpdates
    /\ \E deltaTime \in MoodDeltaTimes, d \in InjectDraws :
       \E m \in {update_mood(fld, deltaTime, d.mood)} :
       \E c \in {update_cells(m, 1, InteriorCount(m), intAbs, d.cell)} :
       \E w \in {update_swap(c)} :
            /\ fld' = update_tail(w, d.tail)
            /\ fld_snap' = m
            /\ fld_call' = [op |-> "update", deltaTime |-> deltaTime, d |-> d, swapped |-> w.grid]
            /\ fld_calls' = fld_calls + 1
            /\ fld_events' = fld_events + DrawnEvents(d)
            /\ UNCHANGED <<fld_pc, fld_fault, fld_alive, intAbs, pbVars, entVars, mgrVars>>

\* ---- the driver's calls on a field whose initialize drew the Strange
\* Attractor (fractalType 7), with one interior cell
AttractorInit ==
    \E d \in InitDraws, ia \in BOOLEAN :
        /\ fld = [FractalGameOfLifeSystem_ctor(3, 3, d) EXCEPT !.fractalType = 7]
        /\ fld_pc = [phase |-> "idle", k |-> 0]
        /\ fld_call = [op |-> "construct", w |-> 3, h |-> 3, d |-> d]
        /\ fld_calls = 0
        /\ fld_events = 0
        /\ fld_snap = fld
        /\ fld_fault = FALSE
        /\ fld_alive = TRUE
        /\ intAbs = ia

\* ---- fractals.cpp called directly: every call applies one function to a
\* point; fld_call holds the call and what it returned (nan: the value is
\* NaN), fld_snap the call before it.
MaxFractalCalls == 2
FractalXs == {0 - 1500, 0, 300, 2000}
FractalYs == {0 - 1000, 0, 1000}
JuliaSeeds == {<<300, 500>>}

FractalInit ==
    \E ia \in BOOLEAN :
        /\ fld = [width |-> 0]
        /\ fld_pc = [phase |-> "idle", k |-> 0]
        /\ fld_call = [op |-> "none"]
        /\ fld_calls = 0
        /\ fld_events = 0
        /\ fld_snap = [op |-> "none"]
        /\ fld_fault = FALSE
        /\ fld_alive = FALSE
        /\ intAbs = ia

FractalReady == fld_calls < MaxFractalCalls

FrCall(op, x, y, r, nan) ==
    /\ fld_call' = [op |-> op, x |-> x, y |-> y, r |-> r, nan |-> nan]
    /\ fld_snap' = fld_call
    /\ fld_calls' = fld_calls + 1
    /\ UNCHANGED <<fld, fld_pc, fld_events, fld_fault, fld_alive, intAbs,
                   pbVars, entVars, mgrVars>>

FrMandelbrot ==
    \E x \in FractalXs, y \in FractalYs :
        FractalReady /\ FrCall("computeMandelbrot", x, y, computeMandelbrot(x, y), FALSE)
FrJulia ==
    \E x \in FractalXs, y \in FractalYs, c \in JuliaSeeds :
        FractalReady /\ FrCall("computeJulia", x, y, computeJulia(x, y, c[1], c[2]), FALSE)
FrBurningShip ==
    \E x \in FractalXs, y \in FractalYs :
        FractalReady /\ FrCall("computeBurningShip", x, y, computeBurningShip(x, y, intAbs), FALSE)
FrTricorn ==
    \E x \in FractalXs, y \in FractalYs :
        FractalReady /\ FrCall("computeTricorn", x, y, computeTricorn(x, y), FALSE)
FrPhoenix ==
    \E x \in FractalXs, y \in FractalYs :
        FractalReady /\ FrCall("computePhoenix", x, y, computePhoenix(x, y), FALSE)
FrNova ==
    \E x \in FractalXs, y \in FractalYs :
        FractalReady /\ FrCall("computeNova", x, y, computeNova(x, y, intAbs), FALSE)
FrPsychedelicWaves ==
    \E x \in FractalXs, y \in FractalYs :
        FractalReady /\ FrCall("computePsychedelicWaves", x, y, computePsychedelicWaves(x, y), FALSE)
FrStrangeAttractor ==
    \E x \in FractalXs, y \in FractalYs :
        \E s \in {computeStrangeAttractor(x, y)} :
            FractalReady /\ FrCall("computeStrangeAttractor", x, y, s.v, s.nan)
FrChaosFractal ==
    \E x \in FractalXs, y \in FractalYs :
        FractalReady /\ FrCall("computeChaosFractal", x, y, computeChaosFractal(x, y, intAbs), FALSE)

(***************************************************************************)
(* Specifications: one per component, the others idle                      *)
(***************************************************************************)
InitPixel == PbInit /\ EntIdle /\ MgrIdle /\ FldIdle
NextPixel == PbSetPixel \/ PbGetPixel \/ PbClear
SpecPixel == InitPixel /\ [][NextPixel]_vars

InitEntity == PbIdle /\ EntInit /\ MgrIdle /\ FldIdle
NextEntity == EntUpdate
SpecEntity == InitEntity /\ [][NextEntity]_vars

InitManager == PbIdle /\ EntIdle /\ MgrInit /\ FldIdle
NextManager == MgrUpdate \/ MgrGetAllTriangles
SpecManager == InitManager /\ [][NextManager]_vars

InitField == PbForField /\ EntIdle /\ MgrIdle /\ FldInit
NextField ==
    \/ FldUpdateBegin \/ FldUpdateCell \/ FldUpdateSwap \/ FldUpdateTail
    \/ FldRender \/ FldResize \/ FldInitialize \/ FldSetCell
    \/ FldInjectSpinner \/ FldInjectGlider \/ FldInjectExploder
    \/ FldInjectChaosBlob \/ FldInjectEnergyVortex
SpecField == InitField /\ [][NextField]_vars

InitMood == PbIdle /\ EntIdle /\ MgrIdle /\ MoodInit
NextMood == MoodUpdate \/ MoodInitialize \/ MoodGetCurrentModeName
SpecMood == InitMood /\ [][NextMood]_vars

InitAttractor == PbIdle /\ EntIdle /\ MgrIdle /\ AttractorInit
NextAttractor == FldUpdateBegin \/ FldUpdateCell \/ FldUpdateSwap \/ FldUpdateTail
SpecAttractor == InitAttractor /\ [][NextAttractor]_vars

InitCrowd == PbIdle /\ EntIdle /\ MgrInit /\ FldIdle
NextCrowd == CrowdUpdate
SpecCrowd == InitCrowd /\ [][NextCrowd]_vars

InitRaster == RasterInit /\ EntIdle /\ MgrIdle /\ FldIdle
NextRaster == RasDrawLine \/ RasFillTriangle \/ RasFillTriangleBarycentric \/ RasFillTriangleGradient
SpecRaster == InitRaster /\ [][NextRaster]_vars

InitBlast == PbIdle /\ EntIdle /\ MgrIdle /\ BlastInit
NextBlast == FldUpdateBegin \/ BlastUpdateCell \/ FldUpdateSwap \/ FldUpdateTail
SpecBlast == InitBlast /\ [][NextBlast]_vars

InitFractal == PbIdle /\ EntIdle /\ MgrIdle /\ FractalInit
NextFractal ==
    \/ FrMandelbrot \/ FrJulia \/ FrBurningShip \/ FrTricorn \/ FrPhoenix
    \/ FrNova \/ FrPsychedelicWaves \/ FrStrangeAttractor \/ FrChaosFractal
SpecFractal == InitFractal /\ [][NextFractal]_vars

InitInject == PbIdle /\ EntIdle /\ MgrIdle /\ BigInit
NextInject ==
    \/ BigUpdate \/ FldSetCell
    \/ FldInjectSpinner \/ FldInjectGlider \/ FldInjectExploder
    \/ FldInjectChaosBlob \/ FldInjectEnergyVortex
SpecInject == InitInject /\ [][NextInject]_vars

(***************************************************************************)
(* Claims                                                                  *)
(***************************************************************************)
\* The seven grids of a field object
Grids(s) == <<s.grid, s.nextGrid, s.energyGrid, s.velocityX, s.velocityY, s.colorGrid, s.trailGrid>>

\* g has exactly h rows of exactly w columns
Rectangular(g, w, h) == Len(g) = h /\ \A j \in 1..Len(g) : Len(g[j]) = w

\* C1: after resize(w2, h2), whatever the dimensions were before, each of the
\* seven grids has exactly h2 rows and each row exactly w2 columns: in every
\* reachable state the grids have the declared width and height.
C1_GridsMatchDeclaredSize ==
    fld_alive => \A n \in 1..7 : Rectangular(Grids(fld)[n], fld.width, fld.height)

\* C2: every driver call on the field engine completes, and every grid
\* access it makes is inside the extent of the row it indexes.
C2_CallsCompleteInsideGrids == fld_alive /\ ~fld_fault

\* C3: the value the cell pass writes for an interior cell (x, y) is the value
\* the same iteration, with the same draws, computes from the object as it was
\* when the pass started: nothing an earlier cell of the pass wrote enters it.
\* Stated for passes in which every access is inside its grid.
C3_CellValueFromSnapshotOnly ==
    (fld_call.op = "update.cell" /\ fld_alive /\ ~fld_fault) =>
        fld.nextGrid[fld_call.y + 1][fld_call.x + 1]
            = update_cell(fld_snap, fld_call.x, fld_call.y, intAbs, fld_call.d).newValue

\* C4: during the cell pass of update the current value grid is never
\* written: it stays what it was when the pass started, so the neighbour sums
\* of every cell read previous-tick values; an iteration writes nextGrid at its
\* own cell only; and the two grids are exchanged once, by the step that
\* follows the last interior cell.
C4_GridReadOnlyDuringPass ==
    /\ [](fld_pc.phase \in {"cells", "swap"} => fld.grid = fld_snap.grid)
    /\ [](fld_pc.phase = "cells" =>
            \E c \in {InteriorCell(fld, fld_pc.k)} :
                cell_neighbors(fld, c[1], c[2], 0) = cell_neighbors(fld_snap, c[1], c[2], 0))
    /\ [][fld_pc.phase = "cells" =>
            \E c \in {InteriorCell(fld, fld_pc.k)} :
                /\ fld'.grid = fld.grid
                /\ \A j \in 1..Len(fld.nextGrid) : \A i \in 1..Len(fld.nextGrid[j]) :
                        <<i - 1, j - 1>> # c => fld'.nextGrid[j][i] = fld.nextGrid[j][i]
                /\ fld_pc'.phase = "swap" => fld_pc.k = InteriorCount(fld)]_vars
    /\ [][fld_pc.phase = "swap" =>
            /\ fld'.grid = fld.nextGrid
            /\ fld'.nextGrid = fld.grid
            /\ fld_pc'.phase = "tail"]_vars
    /\ [][fld_pc.phase = "tail" => fld'.nextGrid = fld.nextGrid /\ fld_pc'.phase = "idle"]_vars

\* C4 witness: the exchange that ends a pass over two interior cells, in which
\* the pass wrote values that differ from the ones it read.
C4_Witness ==
    /\ fld_call.op = "update.swap"
    /\ InteriorCount(fld) = 2
    /\ fld.nextGrid = fld_snap.grid
    /\ fld.grid[2][2] # fld_snap.grid[2][2]
    /\ fld.grid[2][3] # fld_snap.grid[2][3]

\* C5: resize carries no state across: after resize(w2, h2) the object is the
\* freshly constructed object of that size (with the same random draws),
\* whatever it was before.  Stated for resizes that leave well-formed grids.
C5_ResizeStartsAfresh ==
    (/\ fld_call.op = "resize"
     /\ fld_alive
     /\ \A n \in 1..7 : Rectangular(Grids(fld)[n], fld.width, fld.height)) =>
        fld = FractalGameOfLifeSystem_ctor(fld_call.w, fld_call.h, fld_call.d)

\* The ids of the entities of a list, as a set
Ids(es) == {es[i].id : i \in 1..Len(es)}

C7_DeadRemovedLiveKept ==
    /\ [](\A i \in 1..Len(entities) : entities[i].life > 0)
    /\ [][mgr_calls' = mgr_calls + 1 =>
            \A i \in 1..Len(entities) :
                (entities[i].life - mgr_call'.deltaTime > 0)
                    <=> (entities[i].id \in Ids(entities'))]_vars

\* C7 witness: an update after which one spawned entity is gone and another
\* is still in the population.
C7_Witness ==
    /\ mgr_call.op = "update"
    /\ Len(entities) >= 1
    /\ \E id \in 1..(nextId - 1) : id \notin Ids(entities)
    /\ \E i \in 1..Len(entities) : entities[i].elapsed > 0

\* the number of entities of es that are still alive after deltaTime more
LiveAfter(es, deltaTime) == Cardinality({i \in 1..Len(es) : es[i].life - deltaTime > 0})

\* C8: a manager update adds at most one entity, and only when the timer
\* increased by deltaTime has reached spawnInterval and the population left by
\* the removal pass is below maxEntities; a spawn resets the timer to 0 and
\* draws spawnInterval in [0.3, 2.5]; without a spawn the timer keeps its
\* increased value.
C8_SpawnRule ==
    [][mgr_calls' = mgr_calls + 1 =>
        LET deltaTime == mgr_call'.deltaTime
            left      == LiveAfter(entities, deltaTime)
            timer     == spawnTimer + deltaTime
        IN  /\ Len(entities') \in {left, left + 1}
            /\ Len(entities') = left + 1 =>
                  /\ timer >= spawnInterval
                  /\ left < maxEntities
                  /\ spawnTimer' = 0
                  /\ spawnInterval' \in 300..2500
            /\ Len(entities') = left =>
                  /\ spawnTimer' = timer
                  /\ spawnInterval' = spawnInterval]_vars

\* C8 witness: an update that did not spawn although the timer had expired,
\* because the population had reached maxEntities.
C8_Witness ==
    /\ mgr_call.op = "update"
    /\ spawnTimer >= spawnInterval
    /\ Len(entities) >= 5

\* the number of triangles the entities before position i emit
RECURSIVE TrianglesBefore(_, _)
TrianglesBefore(es, i) ==
    IF i <= 1 THEN 0 ELSE TrianglesBefore(es, i - 1) + TriangleCount(es[i - 1])

\* C9: the population is kept in spawn order; getAllTriangles returns, entity
\* after entity in that order, each entity's triangles in emission order and
\* nothing else; it changes no manager or entity state, and a second call
\* returns the same list.
C9_TrianglesInSpawnOrder ==
    /\ [](\A i, j \in 1..Len(entities) : i < j => entities[i].id < entities[j].id)
    /\ [](mgr_call.op = "getAllTriangles" =>
            /\ Len(mgr_call.result) = TrianglesBefore(entities, Len(entities) + 1)
            /\ \A i \in 1..Len(entities) : \A k \in 1..TriangleCount(entities[i]) :
                  mgr_call.result[TrianglesBefore(entities, i) + k] = <<entities[i].id, k>>)
    /\ [][mgr_call'.op = "getAllTriangles" =>
            /\ UNCHANGED <<entities, spawnTimer, spawnInterval, maxEntities>>
            /\ mgr_call.op = "getAllTriangles" => mgr_call'.result = mgr_call.result]_vars

\* C9 witness: a second call in a row, on a population of two entities of
\* different types whose first-spawned member has already been removed.
C9_Witness ==
    /\ mgr_call.op = "getAllTriangles" /\ mgr_call.nth = 2
    /\ Len(entities) >= 2
    /\ entities[1].id > 1
    /\ entities[1].type # entities[2].type

\* C10: setPixel(x, y, c) inside the buffer makes getPixel(x, y) return c and
\* changes no other pixel.
C10_SetGetRoundTrip ==
    [][(pb_call'.op = "setPixel" /\ pb_calls' = pb_calls + 1
          /\ InBuffer(pb_width, pb_height, pb_call'.x, pb_call'.y)) =>
        /\ getPixel(pixels', pb_width, pb_height, pb_call'.x, pb_call'.y) = pb_call'.color
        /\ \A x \in 0..(pb_width - 1), y \in 0..(pb_height - 1) :
              (x # pb_call'.x \/ y # pb_call'.y) =>
                  getPixel(pixels', pb_width, pb_height, x, y)
                      = getPixel(pixels, pb_width, pb_height, x, y)]_vars

\* C10 witness: a setPixel inside a buffer of at least 2 x 2 whose pixel
\* reads back the colour written while another pixel holds another colour.
C10_Witness ==
    /\ pb_call.op = "setPixel"
    /\ pb_width >= 2 /\ pb_height >= 2
    /\ InBuffer(pb_width, pb_height, pb_call.x, pb_call.y)
    /\ getPixel(pixels, pb_width, pb_height, pb_call.x, pb_call.y) = pb_call.color
    /\ \E x \in 0..(pb_width - 1), y \in 0..(pb_height - 1) :
          getPixel(pixels, pb_width, pb_height, x, y) \notin {ZeroColor, pb_call.color}

\* C11: for every (x, y) outside [0, width) x [0, height), setPixel(x, y, c)
\* leaves the whole pixel buffer as it was and getPixel(x, y) returns 0.
C11_OutsideIgnored ==
    [][(/\ pb_calls' = pb_calls + 1
        /\ pb_call'.op \in {"setPixel", "getPixel"}
        /\ (\/ pb_call'.x < 0 \/ pb_call'.x >= pb_width
            \/ pb_call'.y < 0 \/ pb_call'.y >= pb_height)) =>
        /\ pixels' = pixels
        /\ pb_call'.op = "getPixel" => pb_call'.result = ZeroColor]_vars

\* C11 witness: a getPixel one column past the right edge of a buffer none of
\* whose pixels is 0; it returned 0.
C11_Witness ==
    /\ pb_call.op = "getPixel"
    /\ pb_call.x = pb_width /\ pb_call.y \in 0..(pb_height - 1)
    /\ pb_call.result = ZeroColor
    /\ pb_width * pb_height >= 2
    /\ \A i \in DOMAIN pixels : pixels[i] # ZeroColor

\* C12: the attractor list always holds between 2 and 9 points.  An update
\* leaves the list as the drift of the mood left it unless its re-randomisation
\* event appends a point; an append that makes the count exceed 8 removes the
\* front attractor, the others keeping their order, the new point last.
C12_AttractorList ==
    /\ Len(fld.attractors) \in 2..9
    /\ (fld_call.op = "update" /\ fld_alive) =>
        LET drifted == update_mood(fld_snap, fld_call.deltaTime, fld_call.d.mood).attractors
            n == Len(drifted)
        IN  IF ~(fld_call.d.tail.rerandomise /\ fld_call.d.tail.push)
            THEN fld.attractors = drifted
            ELSE IF n + 1 > 8
            THEN /\ Len(fld.attractors) = n
                 /\ \A i \in 1..(n - 1) : fld.attractors[i] = drifted[i + 1]
            ELSE /\ Len(fld.attractors) = n + 1
                 /\ \A i \in 1..n : fld.attractors[i] = drifted[i]

\* C12 witness: an update whose re-randomisation appended to a list of 8
\* attractors, the sixth and seventh of them different; the list holds 8
\* again and its sixth is no longer the old sixth.
C12_Witness ==
    /\ fld_call.op = "update" /\ fld_alive
    /\ fld_call.d.tail.rerandomise /\ fld_call.d.tail.push
    /\ Len(fld_snap.attractors) = 8
    /\ Len(fld.attractors) = 8
    /\ fld_snap.attractors[6] # fld_snap.attractors[7]
    /\ fld.attractors[6] # fld_snap.attractors[6]

\* C13: getCurrentModeName() returns a label other than "Unknown" for each
\* fractalType in 0..12 and "Unknown" only for a fractalType outside 0..12;
\* the call changes no state.
C13_EveryModeNamed ==
    fld_call.op = "getCurrentModeName" =>
        /\ fld.fractalType \in 0..12 <=> fld_call.result # "Unknown"
        /\ fld = fld_snap

\* C14: whenever the injection event of update fires, exactly one of the five
\* patterns is stamped into the grid, centred at an interior cell: the grid
\* the call leaves is the grid as the swap left it with the cells of one
\* non-empty spinner, glider, exploder, chaos blob or energy vortex set.
C14_InjectionStampsOnePattern ==
    (fld_call.op = "update" /\ fld_alive /\ fld_call.d.tail.inject) =>
        \E cx \in 1..(fld.width - 2), cy \in 1..(fld.height - 2) :
            \E stamp \in {SpinnerStamp(fld, cx, cy), GliderStamp(fld, cx, cy),
                          ExploderStamp(fld, cx, cy), EnergyVortexStamp(fld, cx, cy)}
                         \cup {ChaosBlobStamp(fld, cx, cy, q) : q \in Quantiles} :
                /\ stamp # <<>>
                /\ fld.grid = SetCells([fld EXCEPT !.grid = fld_call.swapped], stamp).grid

\* the factor 1 + sin(time * 2) * 0.1 * chaosLevel of line 72 in the update
\* that led from object s0 to object s
ZoomDrift(s0, s, deltaTime) ==
    Scale + MulF(MulF(SinF(2 * (s0.time + MulF(deltaTime, s0.pulseSpeed))), s.chaosLevel), 100)

\* C15: isTripping changes only in an update whose 5% draw succeeds, and such
\* an update inverts it.  Entering the trip re-draws warpIntensity in [5, 15],
\* pulseSpeed in [3, 8], chaosLevel in [0.9, 1.0], fractalType in 0..12 and
\* multiplies zoomLevel by a factor in [0.3, 3.0]; leaving it re-draws
\* warpIntensity in [2, 6], pulseSpeed in [1.5, 4], chaosLevel in [0.6, 0.9] and
\* keeps fractalType.  (warpIntensity, fractalType and zoomLevel are compared
\* in updates whose re-randomisation did not overwrite them.)
C15_TripToggle ==
    LET toggled == fld_call.op = "update" /\ fld_call.d.mood.toggle
        kept == ~fld_call.d.tail.rerandomise
    IN  /\ fld.isTripping # fld_snap.isTripping <=> toggled
        /\ (toggled /\ fld.isTripping) =>
            /\ fld.pulseSpeed \in 3000..8000
            /\ fld.chaosLevel \in 900..1000
            /\ kept =>
                /\ fld.warpIntensity \in 5000..15000
                /\ fld.fractalType \in 0..12
                /\ \E factor \in {300, 3000} \cup {Pick(300, 3000, fld_call.d.mood.q)} :
                      fld.zoomLevel = MulF(MulF(fld_snap.zoomLevel, factor),
                                           ZoomDrift(fld_snap, fld, fld_call.deltaTime))
        /\ (toggled /\ ~fld.isTripping) =>
            /\ fld.pulseSpeed \in 1500..4000
            /\ fld.chaosLevel \in 600..900
            /\ kept =>
                /\ fld.warpIntensity \in 2000..6000
                /\ fld.fractalType = fld_snap.fractalType
                /\ fld.zoomLevel = MulF(fld_snap.zoomLevel,
                                        ZoomDrift(fld_snap, fld, fld_call.deltaTime))

\* C15 witness: an update that left the trip, from a fractal type that the
\* re-draws of the model would have changed, without a re-randomisation.
C15_Witness ==
    /\ fld_call.op = "update" /\ fld_call.d.mood.toggle /\ ~fld_call.d.tail.rerandomise
    /\ fld_snap.isTripping /\ ~fld.isTripping
    /\ fld.fractalType = 12
    /\ fld_alive

\* C16: an iteration of the cell loop whose energy exceeded the threshold
\* leaves 0 in its own cell's energy, adds to every other cell of the field
\* within 3 columns and 3 rows of it a positive amount a with
\* a = 0.3 / sqrt(dx^2 + dy^2) (to the fixed-point unit), and leaves the energy
\* of every cell outside that window as it was.  Stated for iterations in which
\* every access is inside its grid.
C16_ExplosionDeposits ==
    (fld_call.op = "update.cell" /\ fld_call.exploded /\ fld_alive /\ ~fld_fault) =>
        \A j \in 1..fld.height : \A i \in 1..fld.width :
            LET dx == (i - 1) - fld_call.x
                dy == (j - 1) - fld_call.y
                d2 == dx * dx + dy * dy
                a  == fld.energyGrid[j][i] - fld_call.energyBefore[j][i]
            IN  IF dx = 0 /\ dy = 0 THEN fld.energyGrid[j][i] = 0
                ELSE IF Abs(dx) <= 3 /\ Abs(dy) <= 3
                THEN /\ a > 0
                     /\ a * a * d2 <= 90 * Scale
                     /\ (a + 1) * (a + 1) * d2 > 90 * Scale
                ELSE a = 0

\* C16 witness: an explosion at a cell that has cells of the field outside
\* its window (on both axes) and part of its window outside the field, whose
\* own energy and whose neighbours' energy were not 0 before.
C16_Witness ==
    /\ fld_call.op = "update.cell" /\ fld_call.exploded /\ fld_alive /\ ~fld_fault
    /\ fld_call.x = 1 /\ fld_call.y = 1
    /\ fld.width > 5 /\ fld.height > 5
    /\ fld_call.energyBefore[2][2] > 0
    /\ fld_call.energyBefore[3][3] > 0
    /\ fld.energyGrid[2][2] = 0
    /\ fld.energyGrid[3][3] > fld_call.energyBefore[3][3]
    /\ fld.energyGrid[6][6] = fld_call.energyBefore[6][6]
    /\ fld.energyGrid[6][6] > 0

\* the pixels of the buffer that differ between px and before
Changed(px, before) == {k \in DOMAIN px : px[k] # before[k]}

\* C17: fillTriangleGradient with the same colour c at its three vertices
\* changes the pixels that fillTriangle with colour c changes on the same
\* vertices, and every pixel it changes then holds c.
C17_GradientEqualsFlatFill ==
    (/\ pb_call.op = "fillTriangleGradient"
     /\ pb_call.colors[1] = pb_call.colors[2]
     /\ pb_call.colors[2] = pb_call.colors[3]) =>
        LET v == pb_call.v
            c == pb_call.colors[1]
            flat == fillTriangle(pb_call.before, pb_width, pb_height,
                                 v[1], v[2], v[3], v[4], v[5], v[6], c)
        IN  /\ Changed(pixels, pb_call.before) = Changed(flat, pb_call.before)
            /\ \A k \in Changed(pixels, pb_call.before) : pixels[k] = c

\* three points on one line (coincident points included)
Colinear(v) == (v[3] - v[1]) * (v[6] - v[2]) = (v[5] - v[1]) * (v[4] - v[2])

\* C18: fillTriangleBarycentric with three colinear points leaves every pixel
\* of the buffer as it was.
C18_ColinearPaintsNothing ==
    (pb_call.op = "fillTriangleBarycentric" /\ Colinear(pb_call.v)) =>
        pixels = pb_call.before

\* C18 witness: the call on three distinct points of the buffer's diagonal.
C18_Witness ==
    /\ pb_call.op = "fillTriangleBarycentric"
    /\ pb_call.v = <<0, 0, 2, 2, 1, 1>>
    /\ pixels = pb_call.before

\* C19: drawLine stops, at (x1, y1); both endpoints hold the colour
\* afterwards when they are inside the buffer; every position it gives to
\* setPixel is inside the bounding box of the endpoints; and it gives
\* max(|x1 - x0|, |y1 - y0|) + 1 positions, all different, setting no other
\* pixel.
C19_LineReachesEnd ==
    pb_call.op = "drawLine" =>
        LET x0 == pb_call.x0
            y0 == pb_call.y0
            x1 == pb_call.x1
            y1 == pb_call.y1
            visited == pb_call.visited
            n == Max(Abs(x1 - x0), Abs(y1 - y0)) + 1
        IN  /\ pb_call.stopped
            /\ visited[Len(visited)] = <<x1, y1>>
            /\ visited[1] = <<x0, y0>>
            /\ \A e \in {<<x0, y0>>, <<x1, y1>>} :
                    InBuffer(pb_width, pb_height, e[1], e[2]) =>
                        pixels[PixelIndex(pb_width, e[1], e[2])] = pb_call.color
            /\ \A i \in 1..Len(visited) :
                    /\ visited[i][1] \in Min(x0, x1)..Max(x0, x1)
                    /\ visited[i][2] \in Min(y0, y1)..Max(y0, y1)
            /\ Len(visited) = n
            /\ Cardinality({visited[i] : i \in 1..Len(visited)}) = n
            /\ \A k \in DOMAIN pixels :
                    pixels[k] = IF \E i \in 1..Len(visited) : visited[i] = PixelPos(pb_width, k)
                                THEN pb_call.color ELSE pb_call.before[k]

\* C19 witness: a line of slope 1/2 that starts outside the buffer and ends
\* inside it, four positions long.
C19_Witness ==
    /\ pb_call.op = "drawLine"
    /\ <<pb_call.x0, pb_call.y0, pb_call.x1, pb_call.y1>> = <<0 - 1, 0, 2, 2>>
    /\ pb_call.stopped
    /\ Len(pb_call.visited) = 4
    /\ pixels[PixelIndex(pb_width, 2, 2)] = pb_call.color
    /\ Cardinality(Changed(pixels, pb_call.before)) = 3

\* C20: render sets the buffer pixel (x, y) to colorGrid[y][x] for every
\* x < min(buffer width, grid width) and y < min(buffer height, grid height),
\* leaves every other pixel of the buffer as it was, and leaves the field as
\* it was.  The grid's width is taken to be the declared width or the length
\* of some row of colorGrid, its height the declared height or the number of
\* rows, whichever makes the statement true.  Stated for fields no call on
\* which accessed a grid outside its rows.
C20_RenderCopiesColorGrid ==
    /\ []((fld_call.op = "render" /\ ~fld_fault) =>
            \E gw \in {fld.width} \cup {Len(fld.colorGrid[j]) : j \in 1..Len(fld.colorGrid)},
               gh \in {fld.height, Len(fld.colorGrid)} :
                \A k \in DOMAIN pixels :
                    LET x == PixelPos(pb_width, k)[1]
                        y == PixelPos(pb_width, k)[2]
                    IN  IF x < Min(pb_width, gw) /\ y < Min(pb_height, gh)
                        THEN /\ InExtent(fld.colorGrid, x, y)
                             /\ pixels[k] = fld.colorGrid[y + 1][x + 1]
                        ELSE pixels[k] = pb_call.before[k])
    /\ [][fld_call'.op = "render" /\ fld_calls' # fld_calls => fld' = fld]_vars

\* the stamp radius of each injection entry point
StampRadius(op) ==
    CASE op = "injectSpinner" -> 1
      [] op = "injectGlider" -> 2
      [] op = "injectExploder" -> 2
      [] op = "injectChaosBlob" -> 3
      [] op = "injectEnergyVortex" -> 4

\* C21: a pattern injection changes nothing but the current value grid, and
\* there only cells within the pattern's radius of the centre; with the centre
\* closer to an edge of the field than the radius it changes nothing; setCell
\* with a coordinate outside the field changes nothing.  Stated for calls in
\* which every access is inside its grid.
C21_InjectionStaysInStamp ==
    [][(fld_calls' # fld_calls /\ fld_alive' /\ ~fld_fault') =>
        /\ fld_call'.op \in {"injectSpinner", "injectGlider", "injectExploder",
                             "injectChaosBlob", "injectEnergyVortex"} =>
            \E R \in {StampRadius(fld_call'.op)} :
                /\ [fld' EXCEPT !.grid = fld.grid] = fld
                /\ \A j \in 1..Len(fld.grid) : \A i \in 1..Len(fld.grid[j]) :
                        fld'.grid[j][i] # fld.grid[j][i] =>
                            /\ Abs((i - 1) - fld_call'.x) <= R
                            /\ Abs((j - 1) - fld_call'.y) <= R
                /\ (\/ fld_call'.x < R \/ fld.width - 1 - fld_call'.x < R
                    \/ fld_call'.y < R \/ fld.height - 1 - fld_call'.y < R) => fld' = fld
        /\ (fld_call'.op = "setCell" /\ ~setCellGuard(fld, fld_call'.x, fld_call'.y)) =>
                fld' = fld]_vars

\* C21 witness: the energy vortex stamped at (4, 4), the centre nearest to the
\* corner that its guard admits, as first call on the 20 x 20 field; it
\* reached a cell at distance 3 of the centre.
C21_Witness ==
    /\ fld_call.op = "injectEnergyVortex" /\ fld_call.x = 4 /\ fld_call.y = 4
    /\ fld_calls = 1 /\ fld_alive /\ ~fld_fault
    /\ fld.width = 20
    /\ fld.grid[5][5] = Scale
    /\ \E j \in 1..9 : \E i \in {2, 8} : fld.grid[j][i] # fld_snap.grid[j][i]

\* C22: each of the nine fractal functions returns a value in [0, 1] for
\* every input point.
C22_FractalValuesInUnitRange ==
    fld_call.op \in {"computeMandelbrot", "computeJulia", "computeBurningShip",
                     "computeTricorn", "computePhoenix", "computeNova",
                     "computePsychedelicWaves", "computeStrangeAttractor",
                     "computeChaosFractal"} =>
        /\ ~fld_call.nan
        /\ fld_call.r >= 0 /\ fld_call.r <= Scale

\* z after n steps z <- z^2 + c from z = 0, c = (cx, cy)
RECURSIVE MandelZ(_, _, _)
MandelZ(cx, cy, n) ==
    IF n = 0 THEN <<0, 0>>
    ELSE With(MandelZ(cx, cy, n - 1), LAMBDA z :
            <<MulF(z[1], z[1]) - MulF(z[2], z[2]) + cx, 2 * MulF(z[1], z[2]) + cy>>)
MandelEscaped(cx, cy, n) ==
    With(MandelZ(cx, cy, n), LAMBDA z : MulF(z[1], z[1]) + MulF(z[2], z[2]) > 16 * Scale)

\* C23: computeMandelbrot(x, y) is i / 25 for the first index i in 0..24 at
\* which |z|^2 > 16 holds before the step z <- z^2 + c, and 1.0 when there is
\* no such index; computeMandelbrot(0, 0) is 1.0; two calls on the same point
\* return the same value.
C23_MandelbrotEscapeIndex ==
    fld_call.op = "computeMandelbrot" =>
        /\ IF fld_call.r = Scale
           THEN \A n \in 0..24 : ~MandelEscaped(fld_call.x, fld_call.y, n)
           ELSE \E i \in 0..24 :
                    /\ fld_call.r = TruncDiv(i * Scale, 25)
                    /\ \A n \in 0..(i - 1) : ~MandelEscaped(fld_call.x, fld_call.y, n)
                    /\ MandelEscaped(fld_call.x, fld_call.y, i)
        /\ (fld_call.x = 0 /\ fld_call.y = 0) => fld_call.r = Scale
        /\ (/\ fld_snap.op = "computeMandelbrot"
            /\ fld_snap.x = fld_call.x /\ fld_snap.y = fld_call.y) => fld_snap.r = fld_call.r

\* C23 witness: computeMandelbrot called twice on (0.3, 0), whose orbit
\* escapes at index 13.
C23_Witness ==
    /\ fld_calls = 2
    /\ fld_call.op = "computeMandelbrot" /\ fld_snap.op = "computeMandelbrot"
    /\ fld_call.x = 300 /\ fld_call.y = 0 /\ fld_snap.x = 300 /\ fld_snap.y = 0
    /\ fld_call.r = TruncDiv(13 * Scale, 25)
    /\ MandelEscaped(300, 0, 13) /\ ~MandelEscaped(300, 0, 12)

\* C24: generateTriangles emits a number of triangles fixed by the archetype:
\* blob 24, fractal spikes 39 (3 + 9 + 27), ribbon 38, orb 48, fragment cloud
\* 15, polyhedron 12, spiky star between 4 and 12; the type of an entity is
\* in 0..6 from its construction and never changes.
C24_TriangleCounts ==
    /\ [](ent.id # 0 =>
            /\ ent.type \in 0..6
            /\ \E n \in {Len(generateTriangles(ent))} :
                CASE ent.type = 0 -> n >= 4 /\ n <= 12
                  [] ent.type = 1 -> n = 24
                  [] ent.type = 2 -> n = 39 /\ n = 3 + 9 + 27
                  [] ent.type = 3 -> n = 38
                  [] ent.type = 4 -> n = 48
                  [] ent.type = 5 -> n = 15
                  [] ent.type = 6 -> n = 12)
    /\ [][ent.id # 0 => ent'.type = ent.type]_vars

\* C24 witness: a spiky star that was updated and whose spike count has left
\* the 8 it starts with.
C24_Witness ==
    /\ ent.id # 0 /\ ent.type = 0 /\ ent_calls >= 1
    /\ Len(generateTriangles(ent)) # 8
    /\ Len(generateTriangles(ent)) = SpikeCount(ent)

\* the position WeirdEntity::update reaches before its wrap-around tests when
\* no teleport is drawn, for the deltaTime that the elapsed time shows
RawX == ent.position.x + MulF(ent.velocity.x, ent'.elapsed - ent.elapsed)
RawY == ent.position.y + MulF(ent.velocity.y, ent'.elapsed - ent.elapsed)

C26_BorderCellsKeepValue ==
    (/\ fld_call.op = "update.tail" /\ fld_alive /\ ~fld_fault
     /\ ~fld_call.d.inject
     /\ Rectangular(fld.grid, fld.width, fld.height)
     /\ Rectangular(fld_snap.grid, fld.width, fld.height)) =>
        \A y \in 0..(fld.height - 1) : \A x \in 0..(fld.width - 1) :
            (x = 0 \/ y = 0 \/ x = fld.width - 1 \/ y = fld.height - 1) =>
                fld.grid[y + 1][x + 1] = fld_snap.grid[y + 1][x + 1]

\* C27: in every reachable state fractalType lies in 0..12, and in 0..8 right
\* after the constructor or initialize; the selector fractalType % 9 of update
\* therefore lies in 0..8, the cases of the nine fractal functions.
C27_FractalTypeRange ==
    fld_alive =>
        /\ fld.fractalType >= 0 /\ fld.fractalType <= 12
        /\ fld_call.op \in {"construct", "initialize"} => fld.fractalType <= 8
        /\ fld.fractalType % 9 \in 0..8

\* C27 witness: an update has left a fractalType above 8, which the selector
\* folds onto a case of the switch.
C27_Witness ==
    /\ fld_alive /\ fld_call.op = "update"
    /\ fld.fractalType = 12 /\ fld_snap.fractalType <= 8
    /\ fld.fractalType % 9 = 3

\* C28: after any sequence of WeirdVisualManager::update calls the population
\* is at most 25 and maxEntities lies in 5..25; a spawn never takes the
\* population above the maxEntities it was tested against, so the population
\* exceeds maxEntities only after maxEntities was re-rolled downwards.
C28_PopulationCap ==
    /\ [](mgr_call.op # "none" =>
            /\ Len(entities) <= 25
            /\ maxEntities >= 5 /\ maxEntities <= 25)
    /\ [][(mgr_calls' # mgr_calls /\ mgr_call'.op = "update") =>
            /\ nextId' # nextId => Len(entities') <= maxEntities
            /\ Len(entities') <= Len(entities) + 1
            /\ (Len(entities') > maxEntities' /\ Len(entities) <= maxEntities) =>
                    maxEntities' < maxEntities]_vars

\* C28 witness: the population has reached 25 and maxEntities was re-rolled
\* to 5; the spawn timer has run out and no entity was spawned.
C28_Witness ==
    /\ mgr_call.op = "update"
    /\ maxEntities = 5
    /\ Len(entities) = 25
    /\ spawnTimer >= spawnInterval

\* C29: every cell of the energy grid is >= 0 in every reachable state:
\* initialize, the per-cell accumulation, the explosion reset and the
\* explosion wave deposits never make an energy value negative.
C29_EnergyNotNegative ==
    (fld_alive /\ ~fld_fault) =>
        \A j \in 1..Len(fld.energyGrid) : \A i \in 1..Len(fld.energyGrid[j]) :
            fld.energyGrid[j][i] # NaNF /\ fld.energyGrid[j][i] >= 0

\* C30: the set of pixels painted by fillTriangle does not depend on the order
\* in which the three vertices are passed: the buffer after a call is the
\* buffer that each of the six orders of its vertices produces, triangles with two vertices on
\* one row included.
C30_VertexOrderIrrelevant ==
    pb_call.op = "fillTriangle" =>
        LET v == pb_call.v
            orders == {<<v[2 * p[1] - 1], v[2 * p[1]], v[2 * p[2] - 1], v[2 * p[2]],
                         v[2 * p[3] - 1], v[2 * p[3]]>> :
                          p \in {q \in [1..3 -> 1..3] : {q[1], q[2], q[3]} = {1, 2, 3}}}
        IN \A u \in orders :
            pixels = fillTriangle(pb_call.before, pb_width, pb_height,
                                  u[1], u[2], u[3], u[4], u[5], u[6], pb_call.color)

====
